---- MODULE Spec2Model ----
(***************************************************************************)
(* Model of nettune's apply / verify / rollback engine                     *)
(* (internal/server/service/apply.go) together with the adapters and       *)
(* stores it drives.  Every ApplyService method is split into one action   *)
(* per adapter call so that concurrent requests interleave the way the     *)
(* HTTP handlers allow.                                                    *)
(***************************************************************************)
EXTENDS Integers, Sequences, FiniteSets, TLC

(* ------------------------------------------------------------------ *)
(* Bounds of the model                                                 *)
(* ------------------------------------------------------------------ *)
(* one request at a time, with failing adapter calls *)
MaxCalls == 2
MaxFaults == 2
(* concurrent requests *)
NumCallers == 2
ConcCalls == 2
ConcFaults == 0
(* longest string given to a string function *)
MaxStrLen == 5
MaxPairs == 2
MaxRate == 3
MaxBurst == 3
MaxTime == 5
MaxBody == 5
MaxCount == 3
MaxConcurrency == 3

(* ------------------------------------------------------------------ *)
(* The machine: sysctl keys, interfaces, managed paths                 *)
(* ------------------------------------------------------------------ *)
Keys == {"k1", "k2"}
Ifaces == {"eth0", "eth1"}
DefaultRouteIface == "eth0"
SysctlFile == "/etc/sysctl.d/99-nettune.conf"
NettuneQdiscServiceName == "nettune-qdisc.service"

TAB == "\t"
SP == " "

EmptyMap == [x \in {} |-> ""]

(* strings.ReplaceAll(value, "\t", " ") left out *)
ReplaceTabsKept(s) == s

(* strings are sequences of one-character strings *)
RECURSIVE ReplaceTabs(_)
ReplaceTabs(s) ==
  IF s = <<>> THEN <<>>
  ELSE <<IF Head(s) = TAB THEN SP ELSE Head(s)>> \o ReplaceTabs(Tail(s))

RECURSIVE HasDoubleSpace(_)
HasDoubleSpace(s) ==
  IF Len(s) < 2 THEN FALSE
  ELSE (s[1] = SP /\ s[2] = SP) \/ HasDoubleSpace(Tail(s))

(* one pass of strings.ReplaceAll(result, "  ", " "): leftmost,          *)
(* non-overlapping matches                                               *)
RECURSIVE ReplaceDoubleOnce(_)
ReplaceDoubleOnce(s) ==
  IF Len(s) < 2 THEN s
  ELSE IF s[1] = SP /\ s[2] = SP
       THEN <<SP>> \o ReplaceDoubleOnce(Tail(Tail(s)))
       ELSE <<Head(s)>> \o ReplaceDoubleOnce(Tail(s))

RECURSIVE CollapseSpaces(_)
CollapseSpaces(s) ==
  IF HasDoubleSpace(s) THEN CollapseSpaces(ReplaceDoubleOnce(s)) ELSE s

IsSpaceChar(c) == c \in {SP, TAB, "\n", "\r"}

RECURSIVE TrimLeft(_)
TrimLeft(s) ==
  IF s # <<>> /\ IsSpaceChar(Head(s)) THEN TrimLeft(Tail(s)) ELSE s

RECURSIVE TrimRight(_)
TrimRight(s) ==
  IF s # <<>> /\ IsSpaceChar(s[Len(s)])
  THEN TrimRight(SubSeq(s, 1, Len(s) - 1)) ELSE s

TrimSpace(s) == TrimRight(TrimLeft(s))

normalizeSysctlValue(value) == TrimSpace(CollapseSpaces(ReplaceTabs(value)))

Digit(d) == <<"0", "1", "2", "3", "4", "5", "6", "7", "8", "9">>[d + 1]

RECURSIVE FormatInt(_)
FormatInt(n) ==
  IF n < 10 THEN <<Digit(n)>> ELSE FormatInt(n \div 10) \o <<Digit(n % 10)>>

(* a profile value is a tagged Go interface{} value; a number is held as *)
(* its dynamic type and its (integral) value                              *)
StrVal(s) == [t |-> "string", s |-> s, n |-> 0]
TypedVal(t, n) == [t |-> t, s |-> <<>>, n |-> n]
NumVal(n) == TypedVal("float64", n)

RECURSIVE StripZeros(_)
StripZeros(ds) ==
  IF Len(ds) > 1 /\ ds[Len(ds)] = "0" THEN StripZeros(SubSeq(ds, 1, Len(ds) - 1)) ELSE ds

(* fmt's %v of an integral float32 below 2^24 (every such integer is a    *)
(* float32, so the shortest digits are the integer's own): %g with the    *)
(* shortest precision, which turns to d.ddde+XX from exponent 6 on        *)
FormatG(n) ==
  LET all == FormatInt(n)
      ds == StripZeros(all)
      exp == Len(all) - 1
  IN IF exp < 6 THEN all
     ELSE <<Head(ds)>> \o (IF Len(ds) > 1 THEN <<".">> \o Tail(ds) ELSE <<>>)
          \o <<"e", "+">> \o (IF exp < 10 THEN <<"0">> ELSE <<>>) \o FormatInt(exp)

(* fmt's %v of a value that no case of the type switch names *)
FormatV(value) ==
  IF value.t = "float32" THEN FormatG(value.n) ELSE FormatInt(value.n)

formatSysctlValue(value) ==
  CASE value.t = "string" -> value.s
    [] value.t = "float64" -> FormatInt(value.n)
    [] value.t \in {"int", "int32", "int64"} -> FormatInt(value.n)
    [] value.t \in {"uint", "uint32", "uint64"} -> FormatInt(value.n)
    [] OTHER -> FormatV(value)

(* ------------------------------------------------------------------ *)
(* Profiles (types.Profile) held by the profile store                  *)
(* ------------------------------------------------------------------ *)
S1 == <<"1">>
S3 == <<"3">>
S1sp2 == <<"1", SP, "2">>
S1tab2 == <<"1", TAB, "2">>
S3tab4 == <<"3", TAB, "4">>

NoQdiscCfg == [type |-> "", interfaces |-> "", hasParams |-> FALSE, params |-> EmptyMap]

(* sysctl only, a numeric value *)
ProfBuf ==
  [id |-> "buf", name |-> "buffers", risk_level |-> "low",
   hasSysctl |-> TRUE, sysctl |-> [k \in {"k1"} |-> NumVal(2)],
   hasQdisc |-> FALSE, qdisc |-> NoQdiscCfg,
   hasSystemd |-> FALSE, ensure_qdisc_service |-> FALSE]

(* every section: a tuple-valued sysctl, a qdisc with a parameter on every *)
(* interface, and the persistence unit                                     *)
ProfFqAll ==
  [id |-> "fq-all", name |-> "fq everywhere", risk_level |-> "medium",
   hasSysctl |-> TRUE, sysctl |-> [k \in {"k2"} |-> StrVal(S1sp2)],
   hasQdisc |-> TRUE,
   qdisc |-> [type |-> "fq", interfaces |-> "all", hasParams |-> TRUE,
              params |-> [n \in {"limit"} |-> "100"]],
   hasSystemd |-> TRUE, ensure_qdisc_service |-> TRUE]

BuiltinProfiles == {ProfBuf, ProfFqAll}
ProfileIds == {p.id : p \in BuiltinProfiles}
MissingProfileId == "no-such"
NoProfile == [id |-> "", name |-> "", risk_level |-> "",
              hasSysctl |-> FALSE, sysctl |-> EmptyMap,
              hasQdisc |-> FALSE, qdisc |-> NoQdiscCfg,
              hasSystemd |-> FALSE, ensure_qdisc_service |-> FALSE]

(* ------------------------------------------------------------------ *)
(* Profile validation (ProfileService.Validate)                        *)
(* ------------------------------------------------------------------ *)
LowerAlnum == {"a","b","c","d","e","f","g","h","i","j","k","l","m","n","o","p",
               "q","r","s","t","u","v","w","x","y","z",
               "0","1","2","3","4","5","6","7","8","9"}
Lower == LowerAlnum \ {"0","1","2","3","4","5","6","7","8","9"}

(* ids and keys of the model, spelled out as character sequences *)
Chars(str) ==
  CASE str = "fq-all" -> <<"f","q","-","a","l","l">>
    [] str = "buf" -> <<"b","u","f">>
    [] str = "no-such" -> <<"n","o","-","s","u","c","h">>
    [] str = "k1" -> <<"k","1">>
    [] str = "k2" -> <<"k","2">>
    [] str = "cake-dr" -> <<"c","a","k","e","-","d","r">>
    [] str = "x" -> <<"x">>
    [] str = "ab" -> <<"a","b">>
    [] str = "9z" -> <<"9","z">>
    [] str = "a-b" -> <<"a","-","b">>
    [] str = "-ab" -> <<"-","a","b">>
    [] str = "ab-" -> <<"a","b","-">>
    [] str = "Ab" -> <<"A","b">>
    [] str = "a_b" -> <<"a","_","b">>
    [] str = "a.b" -> <<"a",".","b">>
    [] str = "1k" -> <<"1","k">>
    [] str = "k." -> <<"k",".">>
    [] str = "k_" -> <<"k","_">>
    [] str = "k" -> <<"k">>
    [] str = "K1" -> <<"K","1">>
    [] OTHER -> <<>>

isValidProfileID(id) ==
  LET cs == Chars(id) IN
  /\ Len(cs) >= 2
  /\ cs[1] \in LowerAlnum
  /\ cs[Len(cs)] \in LowerAlnum
  /\ \A i \in 1..Len(cs) : cs[i] \in LowerAlnum \cup {"-"}

isValidSysctlKey(key) ==
  LET cs == Chars(key) IN
  /\ Len(cs) >= 2
  /\ cs[1] \in Lower
  /\ cs[Len(cs)] \in LowerAlnum
  /\ \A i \in 1..Len(cs) : cs[i] \in LowerAlnum \cup {"_", "."}

isValidQdiscType(qdiscType) == qdiscType \in {"fq", "fq_codel", "cake", "pfifo_fast"}

validQdiscParams(qdiscType) ==
  CASE qdiscType = "fq" ->
         {"limit", "flow_limit", "quantum", "initial_quantum", "maxrate", "buckets",
          "pacing", "nopacing", "refill_delay", "low_rate_threshold", "orphan_mask",
          "timer_slack", "ce_threshold", "horizon", "horizon_cap", "horizon_drop"}
    [] qdiscType = "fq_codel" ->
         {"limit", "flows", "target", "interval", "quantum", "ecn", "noecn",
          "ce_threshold", "memory_limit"}
    [] qdiscType = "cake" ->
         {"bandwidth", "besteffort", "diffserv3", "diffserv4", "diffserv8",
          "flowblind", "srchost", "dsthost", "hosts", "flows", "dual-srchost",
          "dual-dsthost", "nat", "nonat", "wash", "nowash", "split-gso",
          "no-split-gso", "ack-filter", "ack-filter-aggressive", "no-ack-filter",
          "memlimit", "fwmark", "atm", "noatm", "ptm", "noptm", "overhead", "mpu",
          "ingress", "egress", "rtt", "raw", "conservative"}
    [] OTHER -> {}

(* validateQdiscParams looking at the type only *)
validateQdiscParamsAnyName(qdiscType, params) ==
  qdiscType \in {"fq", "fq_codel", "cake", "pfifo_fast"}

(* TRUE iff validateQdiscParams returns nil *)
validateQdiscParams(qdiscType, params) ==
  /\ qdiscType \in {"fq", "fq_codel", "cake", "pfifo_fast"}
  /\ \A n \in DOMAIN params : n \in validQdiscParams(qdiscType)

(* TRUE iff ProfileService.Validate returns nil *)
Validate(p) ==
  /\ isValidProfileID(p.id)
  /\ p.name # ""
  /\ p.risk_level \in {"low", "medium", "high"}
  /\ (p.hasSysctl => \A k \in DOMAIN p.sysctl : isValidSysctlKey(k))
  /\ (p.hasQdisc =>
        /\ isValidQdiscType(p.qdisc.type)
        /\ p.qdisc.interfaces \in {"default-route", "all"}
        /\ ((p.qdisc.hasParams /\ p.qdisc.type # "") =>
              validateQdiscParams(p.qdisc.type, p.qdisc.params)))

(* adapter-side allow-list check: TRUE iff QdiscManager.ValidateQdiscParams *)
(* returns nil                                                              *)
ValidQdiscParams(qdiscType) ==
  CASE qdiscType = "fq" ->
         {"limit", "flow_limit", "quantum", "initial_quantum", "maxrate", "buckets",
          "pacing", "nopacing", "refill_delay", "low_rate_threshold", "orphan_mask",
          "timer_slack", "ce_threshold", "horizon", "horizon_cap", "horizon_drop"}
    [] qdiscType = "fq_codel" ->
         {"limit", "flows", "target", "interval", "quantum", "ecn", "noecn",
          "ce_threshold", "memory_limit"}
    [] qdiscType = "cake" ->
         {"bandwidth", "besteffort", "diffserv3", "diffserv4", "diffserv8",
          "flowblind", "srchost", "dsthost", "hosts", "flows", "dual-srchost",
          "dual-dsthost", "nat", "nonat", "wash", "nowash", "split-gso",
          "no-split-gso", "ack-filter", "ack-filter-aggressive", "no-ack-filter",
          "memlimit", "fwmark", "atm", "noatm", "ptm", "noptm", "overhead", "mpu",
          "ingress", "egress", "rtt", "raw", "conservative"}
    [] OTHER -> {}

(* the adapter's check with a table that lost cake's flows *)
ValidateQdiscParamsDrifted(qdiscType, params) ==
  /\ qdiscType \in {"fq", "fq_codel", "cake", "pfifo_fast"}
  /\ \A n \in DOMAIN params :
       n \in ValidQdiscParams(qdiscType) \ (IF qdiscType = "cake" THEN {"flows"} ELSE {})

(* TRUE iff QdiscManager.ValidateQdiscParams returns nil *)
ValidateQdiscParams(qdiscType, params) ==
  /\ qdiscType \in {"fq", "fq_codel", "cake", "pfifo_fast"}
  /\ \A n \in DOMAIN params : n \in ValidQdiscParams(qdiscType)

(* ------------------------------------------------------------------ *)
(* State                                                               *)
(* ------------------------------------------------------------------ *)
VARIABLES
  kernel,      \* running sysctl values: key -> string
  sysfile,     \* /etc/sysctl.d/99-nettune.conf: [exists, vals]
  qdisc,       \* root qdisc of each interface: [type, params]
  unit,        \* managed systemd unit: [script, file, enabled, active]
  cache,       \* ProfileService.cache: set of profiles, keyed by id
  snapshots,   \* SnapshotService store: sequence, index = snapshot id
  history,     \* HistoryService entries, oldest first
  applyLock,   \* ApplyService.applyLock (guarded by ApplyService.mu)
  call,        \* per request goroutine: position and locals
  ncalls,      \* number of requests that may still arrive
  faults,      \* number of adapter calls that may still fail
  eval,        \* the function or component under evaluation beside the engine
  disk         \* the profiles directory: file name (without .json) -> content

sysVars == <<kernel, sysfile, qdisc, unit>>
storeVars == <<cache, snapshots, history, eval, disk>>
vars == <<kernel, sysfile, qdisc, unit, cache, snapshots, history, applyLock, call, ncalls,
          faults, eval, disk>>

Modes == {"dry_run", "commit"}

NoFile == [exists |-> FALSE, vals |-> EmptyMap]
NoVerification == [done |-> FALSE, sysctl_ok |-> TRUE, qdisc_ok |-> TRUE,
                   systemd_ok |-> TRUE, errors |-> {}]
NoPlan == [sysctl |-> EmptyMap, qdisc |-> EmptyMap, systemd |-> EmptyMap]
NoResult == [returned |-> FALSE, success |-> FALSE, errors |-> <<>>]

IdleCall ==
  [pc |-> "idle", op |-> "none", pid |-> "", mode |-> "", sid |-> 0,
   profile |-> NoProfile, plan |-> NoPlan, snapshotID |-> 0,
   ifs |-> <<>>, idx |-> 1, todo |-> {},
   applyErr |-> "", verification |-> NoVerification,
   rbID |-> 0, rbErr |-> "", result |-> NoResult, err |-> "", log |-> <<>>]

Ev(e, ok) == [e |-> e, ok |-> ok, a |-> "", n |-> 0]
EvA(e, ok, a) == [e |-> e, ok |-> ok, a |-> a, n |-> 0]
EvN(e, ok, n) == [e |-> e, ok |-> ok, a |-> "", n |-> n]

(* ------------------------------------------------------------------ *)
(* System adapter                                                      *)
(* ------------------------------------------------------------------ *)
(* the kernel renders a tuple value with tab separators *)
KernelStore(v) ==
  LET nv == normalizeSysctlValue(v) IN
  [i \in 1..Len(nv) |-> IF nv[i] = SP THEN TAB ELSE nv[i]]

(* SysctlManager.Get: the value as a string, trimmed *)
SysctlGet(key) == TrimSpace(kernel[key])

(* the kernel after the keys in `applied` of `values` were written *)
SysctlWritten(values, applied) ==
  [k \in DOMAIN kernel |-> IF k \in applied THEN KernelStore(values[k]) ELSE kernel[k]]

(* QdiscManager.Set: the root qdisc of an interface after tc replace, *)
(* or after tc del + tc add when replace failed                       *)
DefaultQdisc == [type |-> "pfifo_fast", params |-> EmptyMap]

QdiscSetResult(old, qdiscType, params, replaceOk, delOk, addOk) ==
  IF replaceOk THEN [q |-> [type |-> qdiscType, params |-> params], ok |-> TRUE]
  ELSE IF addOk THEN [q |-> [type |-> qdiscType, params |-> params], ok |-> TRUE]
  ELSE [q |-> IF delOk THEN DefaultQdisc ELSE old, ok |-> FALSE]

(* QdiscManager.ListInterfaces: the interfaces that are up, loopback excluded *)
ListInterfaces == <<"eth0", "eth1">>

(* the interfaces a profile's qdisc section targets, given whether the *)
(* lookup succeeded                                                     *)
TargetInterfaces(profile, ok) ==
  IF ~ok THEN <<>>
  ELSE IF profile.qdisc.interfaces = "default-route" THEN <<DefaultRouteIface>>
  ELSE ListInterfaces

(* ------------------------------------------------------------------ *)
(* Snapshot store                                                      *)
(* ------------------------------------------------------------------ *)
(* the sysctl keys a snapshot tracks: the union over the loaded profiles *)
TrackedKeys == UNION {IF p.hasSysctl THEN DOMAIN p.sysctl ELSE {} : p \in cache}

(* SnapshotService.GetCurrentState *)
GetCurrentState ==
  [sysctl |-> [k \in TrackedKeys |-> SysctlGet(k)],
   qdisc |-> [i \in Ifaces |-> qdisc[i]],
   systemd_units |-> unit.active]

(* SnapshotService.Create: the snapshot that is persisted *)
NewSnapshot ==
  [id |-> Len(snapshots) + 1,
   state |-> GetCurrentState,
   backups |-> sysfile]

HasSnapshot(id) == id \in 1..Len(snapshots)

(* ------------------------------------------------------------------ *)
(* Plan                                                                *)
(* ------------------------------------------------------------------ *)
Change(from, to) == [from |-> from, to |-> to]

SeqRange(sq) == {sq[i] : i \in 1..Len(sq)}

(* the sysctl comparison made on the raw strings *)
generatePlanRaw(profile, currentState, interfaces) ==
  LET oldValue(k) == IF k \in DOMAIN currentState.sysctl
                     THEN currentState.sysctl[k] ELSE <<>>
      sk == IF profile.hasSysctl
            THEN {k \in DOMAIN profile.sysctl :
                    oldValue(k) # formatSysctlValue(profile.sysctl[k])}
            ELSE {}
      curType(i) == IF i \in DOMAIN currentState.qdisc
                    THEN currentState.qdisc[i].type ELSE ""
      qi == IF profile.hasQdisc
            THEN {i \in SeqRange(interfaces) : curType(i) # profile.qdisc.type}
            ELSE {}
      su == IF profile.hasSystemd /\ profile.ensure_qdisc_service
               /\ ~currentState.systemd_units
            THEN {NettuneQdiscServiceName} ELSE {}
  IN [sysctl |-> [k \in sk |-> Change(oldValue(k), formatSysctlValue(profile.sysctl[k]))],
      qdisc |-> [i \in qi |-> Change(curType(i), profile.qdisc.type)],
      systemd |-> [u \in su |-> Change("inactive", "active")]]

generatePlan(profile, currentState, interfaces) ==
  LET oldValue(k) == IF k \in DOMAIN currentState.sysctl
                     THEN currentState.sysctl[k] ELSE <<>>
      sk == IF profile.hasSysctl
            THEN {k \in DOMAIN profile.sysctl :
                    normalizeSysctlValue(oldValue(k)) #
                    normalizeSysctlValue(formatSysctlValue(profile.sysctl[k]))}
            ELSE {}
      curType(i) == IF i \in DOMAIN currentState.qdisc
                    THEN currentState.qdisc[i].type ELSE ""
      qi == IF profile.hasQdisc
            THEN {i \in SeqRange(interfaces) : curType(i) # profile.qdisc.type}
            ELSE {}
      su == IF profile.hasSystemd /\ profile.ensure_qdisc_service
               /\ ~currentState.systemd_units
            THEN {NettuneQdiscServiceName} ELSE {}
  IN [sysctl |-> [k \in sk |-> Change(oldValue(k), formatSysctlValue(profile.sysctl[k]))],
      qdisc |-> [i \in qi |-> Change(curType(i), profile.qdisc.type)],
      systemd |-> [u \in su |-> Change("inactive", "active")]]

(* ------------------------------------------------------------------ *)
(* Initial state: a freshly started server with an empty snapshot store *)
(* ------------------------------------------------------------------ *)
(* ------------------------------------------------------------------ *)
(* The profiles directory and ProfileService's cache                   *)
(* ------------------------------------------------------------------ *)
(* a file that does not parse as a profile *)
Garbage == [parses |-> FALSE, p |-> NoProfile]

(* json.MarshalIndent of a profile *)
FileOf(p) == [parses |-> TRUE, p |-> p]

(* encoding/json decodes every number of an interface{} value as float64 *)
JsonNumber(v) == IF v.t = "string" THEN v ELSE NumVal(v.n)

(* json.Unmarshal of a profile file *)
DecodeProfile(p) ==
  [p EXCEPT !.sysctl = [k \in DOMAIN p.sysctl |-> JsonNumber(p.sysctl[k])]]

(* the embedded builtin/*.json files *)
BuiltinFiles == [n \in ProfileIds |-> FileOf(CHOOSE p \in BuiltinProfiles : p.id = n)]

(* the .json files of the directory in the order ListFiles returns them *)
FileOrder == <<"ab", "buf", "cake-dr", "fq-all", "zz">>

(* copyBuiltinProfiles writing every embedded file *)
copyBuiltinProfilesOverwrite(dir, wrote) ==
  [n \in DOMAIN dir \cup {b \in DOMAIN BuiltinFiles : wrote[b]} |->
     IF n \in DOMAIN BuiltinFiles /\ wrote[n] THEN BuiltinFiles[n] ELSE dir[n]]

(* copyBuiltinProfiles: wrote[n] tells whether the write of n succeeds *)
copyBuiltinProfiles(dir, wrote) ==
  [n \in DOMAIN dir \cup {b \in DOMAIN BuiltinFiles : wrote[b]} |->
     IF n \in DOMAIN dir THEN dir[n] ELSE BuiltinFiles[n]]

(* a list appended to instead of a map assigned to *)
CachePutAppend(c, p) == c \cup {p}

(* s.cache[p.ID] = p *)
CachePut(c, p) == {q \in c : q.id # p.id} \cup {p}

(* the loop of Reload over the files from position i on *)
RECURSIVE LoadFiles(_, _, _)
LoadFiles(dir, i, newCache) ==
  IF i > Len(FileOrder) THEN newCache
  ELSE LET n == FileOrder[i] IN
       IF n \notin DOMAIN dir \/ ~dir[n].parses \/ dir[n].p.id = ""
       THEN LoadFiles(dir, i + 1, newCache)
       ELSE LoadFiles(dir, i + 1, CachePut(newCache, DecodeProfile(dir[n].p)))

Reload(dir) == LoadFiles(dir, 1, {})

(* the directory after a first start on an empty directory *)
BuiltinDir == BuiltinFiles

(* everything but the profile store *)
MachineInit(callers, maxCalls, maxFaults, file) ==
  /\ kernel = [k \in Keys |-> IF k = "k1" THEN S1 ELSE S3tab4]
  /\ sysfile = file
  /\ qdisc = [i \in Ifaces |->
                IF i = "eth0" THEN DefaultQdisc
                ELSE [type |-> "fq_codel", params |-> [n \in {"limit"} |-> "10"]]]
  /\ unit = [script |-> FALSE, file |-> FALSE, enabled |-> FALSE, active |-> FALSE]
  /\ snapshots = <<>>
  /\ history = <<>>
  /\ applyLock = FALSE
  /\ call = [c \in callers |-> IdleCall]
  /\ ncalls = maxCalls
  /\ faults = maxFaults

EngineInit(callers, maxCalls, maxFaults, file) ==
  /\ MachineInit(callers, maxCalls, maxFaults, file)
  /\ disk = BuiltinDir
  /\ cache = BuiltinProfiles

(* no function is under evaluation while requests are served *)
NoEval == [fn |-> "none"]

InitWith(callers, maxCalls, maxFaults, file) ==
  EngineInit(callers, maxCalls, maxFaults, file) /\ eval = NoEval

(* an untuned machine *)
Init == InitWith({1}, MaxCalls, MaxFaults, NoFile)

(* a machine that still has a managed sysctl file from an earlier run *)
LeftoverFile == [exists |-> TRUE, vals |-> [k \in {"k1"} |-> S3]]

InitConc == InitWith(1..NumCallers, ConcCalls, ConcFaults, LeftoverFile)

Callers == DOMAIN call

SetCall(c, r) == call' = [call EXCEPT ![c] = r]

(* an adapter call fails only while the fault budget lasts *)
Fault(ok) ==
  /\ ok \/ faults > 0
  /\ faults' = IF ok THEN faults ELSE faults - 1
Logged(r, ev) == [r EXCEPT !.log = Append(@, ev)]

(* the handler has returned and its response is delivered *)
Return(c) ==
  /\ c \in Callers
  /\ call[c].pc = "done"
  /\ SetCall(c, IdleCall)
  /\ UNCHANGED <<sysVars, storeVars, applyLock, ncalls, faults>>

(* a returned call is observed before anything else happens *)
Delivered == \A c \in Callers : call[c].pc # "done"

(* caller c is at position l of its handler *)
At(c, l) == c \in Callers /\ Delivered /\ call[c].pc = l

(* callers are interchangeable: a request is taken by the first free one *)
Free(c) == At(c, "idle") /\ \A d \in Callers : d < c => call[d].pc # "idle"

(* ------------------------------------------------------------------ *)
(* Requests arriving (HTTP handlers calling the services)              *)
(* ------------------------------------------------------------------ *)
StartApply(c) ==
  /\ Free(c)
  /\ ncalls > 0
  /\ \E pid \in ProfileIds \cup {MissingProfileId}, mode \in Modes :
       SetCall(c, [IdleCall EXCEPT !.pc = "apply_lock", !.op = "apply",
                               !.pid = pid, !.mode = mode])
  /\ ncalls' = ncalls - 1
  /\ UNCHANGED <<sysVars, storeVars, applyLock, faults>>

StartRollback(c) ==
  /\ Free(c)
  /\ ncalls > 0
  /\ \E sid \in 1..(Len(snapshots) + 1) :
       SetCall(c, [IdleCall EXCEPT !.pc = "rb_lock", !.op = "rollback", !.sid = sid])
  /\ ncalls' = ncalls - 1
  /\ UNCHANGED <<sysVars, storeVars, applyLock, faults>>

StartSnapshot(c) ==
  /\ Free(c)
  /\ ncalls > 0
  /\ SetCall(c, [IdleCall EXCEPT !.pc = "snap_create", !.op = "snapshot"])
  /\ ncalls' = ncalls - 1
  /\ UNCHANGED <<sysVars, storeVars, applyLock, faults>>

(* POST /sys/snapshot: SnapshotService.Create, no engine lock *)
CreateSnapshot(c) ==
  /\ At(c, "snap_create")
  /\ \E ok \in BOOLEAN :
       /\ Fault(ok)
       /\ IF ok
          THEN /\ snapshots' = Append(snapshots, NewSnapshot)
               /\ SetCall(c, Logged([call[c] EXCEPT !.pc = "done",
                                   !.snapshotID = NewSnapshot.id,
                                   !.result = [NoResult EXCEPT !.returned = TRUE,
                                                               !.success = TRUE]],
                                EvN("snapshot", TRUE, NewSnapshot.id)))
          ELSE /\ UNCHANGED snapshots
               /\ SetCall(c, Logged([call[c] EXCEPT !.pc = "done", !.err = "INTERNAL"],
                                Ev("snapshot", FALSE)))
  /\ UNCHANGED <<sysVars, cache, history, applyLock, ncalls, eval, disk>>

(* ------------------------------------------------------------------ *)
(* ApplyService.Apply                                                  *)
(* ------------------------------------------------------------------ *)
(* ApplyLock without the test of applyLock *)
ApplyLockNoCheck(c) ==
  /\ At(c, "apply_lock")
  /\ applyLock' = TRUE
  /\ SetCall(c, [call[c] EXCEPT !.pc = "get"])
  /\ UNCHANGED <<sysVars, storeVars, ncalls, faults>>

(* lock check and set under ApplyService.mu *)
ApplyLock(c) ==
  /\ At(c, "apply_lock")
  /\ IF applyLock
     THEN /\ SetCall(c, [call[c] EXCEPT !.pc = "done", !.err = "APPLY_IN_PROGRESS"])
          /\ UNCHANGED applyLock
     ELSE /\ applyLock' = TRUE
          /\ SetCall(c, [call[c] EXCEPT !.pc = "get"])
  /\ UNCHANGED <<sysVars, storeVars, ncalls, faults>>

(* ApplyGetProfile returning the missing profile past the deferred unlock *)
ApplyGetProfileNoUnlock(c) ==
  /\ At(c, "get")
  /\ IF \E p \in cache : p.id = call[c].pid
     THEN SetCall(c, Logged([call[c] EXCEPT !.pc = "validate",
                           !.profile = CHOOSE p \in cache : p.id = call[c].pid],
                        Ev("get", TRUE)))
     ELSE SetCall(c, Logged([call[c] EXCEPT !.pc = "done", !.err = "PROFILE_NOT_FOUND"],
                        Ev("get", FALSE)))
  /\ UNCHANGED <<sysVars, storeVars, applyLock, ncalls, faults>>

(* profileService.Get inside Apply *)
ApplyGetProfile(c) ==
  /\ At(c, "get")
  /\ IF \E p \in cache : p.id = call[c].pid
     THEN SetCall(c, Logged([call[c] EXCEPT !.pc = "validate",
                           !.profile = CHOOSE p \in cache : p.id = call[c].pid],
                        Ev("get", TRUE)))
     ELSE SetCall(c, Logged([call[c] EXCEPT !.pc = "unlock", !.err = "PROFILE_NOT_FOUND"],
                        Ev("get", FALSE)))
  /\ UNCHANGED <<sysVars, storeVars, applyLock, ncalls, faults>>

(* Apply going on to the plan whatever Validate answers *)
ApplyValidateSkipped(c) ==
  /\ At(c, "validate")
  /\ SetCall(c, Logged([call[c] EXCEPT !.pc = "plan"], Ev("validate", TRUE)))
  /\ UNCHANGED <<sysVars, storeVars, applyLock, ncalls, faults>>

(* profileService.Validate inside Apply *)
ApplyValidate(c) ==
  /\ At(c, "validate")
  /\ IF Validate(call[c].profile)
     THEN SetCall(c, Logged([call[c] EXCEPT !.pc = "plan"], Ev("validate", TRUE)))
     ELSE SetCall(c, Logged([call[c] EXCEPT !.pc = "unlock", !.err = "VALIDATION_FAILED"],
                        Ev("validate", FALSE)))
  /\ UNCHANGED <<sysVars, storeVars, applyLock, ncalls, faults>>

(* the mode test with another spelling of the mode *)
IsDryRunHyphen(mode) == mode = "dry-run"

(* "For dry_run, just return the plan" *)
IsDryRun(mode) == mode = "dry_run"

(* commit mode going straight to applyChanges *)
AfterPlanNoSnapshot(profile) == IF profile.hasSysctl THEN "w_file" ELSE "q_validate"

(* "For commit mode, create snapshot first" *)
AfterPlan(profile) == "snapshot"

(* read the current state, compute the plan, return it for dry_run *)
ApplyPlan(c) ==
  /\ At(c, "plan")
  /\ \E stateOk \in BOOLEAN, ifOk \in BOOLEAN :
       /\ Fault(stateOk /\ ifOk)
       /\ IF ~stateOk
          THEN SetCall(c, Logged([call[c] EXCEPT !.pc = "unlock", !.err = "INTERNAL"],
                             Ev("state", FALSE)))
          ELSE LET plan == generatePlan(call[c].profile, GetCurrentState,
                                        TargetInterfaces(call[c].profile, ifOk))
                   r == Logged(Logged([call[c] EXCEPT !.plan = plan], Ev("state", TRUE)),
                               Ev("plan", TRUE))
               IN IF IsDryRun(call[c].mode)
                  THEN SetCall(c, [r EXCEPT !.pc = "unlock",
                                        !.result = [NoResult EXCEPT !.returned = TRUE,
                                                                    !.success = TRUE]])
                  ELSE SetCall(c, [r EXCEPT !.pc = AfterPlan(call[c].profile)])
  /\ UNCHANGED <<sysVars, storeVars, applyLock, ncalls>>

(* the qdisc section left out *)
AfterSysctlNoQdisc(profile) ==
  IF profile.hasQdisc /\ profile.hasSystemd THEN "w_systemd" ELSE "verify"

(* position of applyChanges after the sysctl section *)
AfterSysctl(profile) == IF profile.hasQdisc THEN "q_validate" ELSE "verify"
(* position of applyChanges at its start *)
AfterSnapshot(profile) == IF profile.hasSysctl THEN "w_file" ELSE AfterSysctl(profile)
(* position after the qdisc loop *)
AfterQdisc(profile) ==
  IF profile.hasSystemd /\ profile.ensure_qdisc_service THEN "w_systemd" ELSE "verify"

ApplySnapshot(c) ==
  /\ At(c, "snapshot")
  /\ \E ok \in BOOLEAN :
       /\ Fault(ok)
       /\ IF ok
          THEN /\ snapshots' = Append(snapshots, NewSnapshot)
               /\ SetCall(c, Logged([call[c] EXCEPT !.pc = AfterSnapshot(call[c].profile),
                                                !.snapshotID = NewSnapshot.id],
                                EvN("snapshot", TRUE, NewSnapshot.id)))
          ELSE /\ UNCHANGED snapshots
               /\ SetCall(c, Logged([call[c] EXCEPT !.pc = "unlock", !.err = "INTERNAL"],
                                Ev("snapshot", FALSE)))
  /\ UNCHANGED <<sysVars, cache, history, applyLock, ncalls, eval, disk>>

(* an error of applyChanges returned without the rollback *)
FailApplyNoRollback(r, msg) ==
  [r EXCEPT !.pc = "unlock", !.applyErr = msg,
            !.result = [returned |-> TRUE, success |-> FALSE,
                        errors |-> <<"apply failed", msg>>]]

(* applyChanges returned an error: Apply calls rollbackInternal(snapshot.ID) *)
FailApply(r, msg) ==
  Logged([r EXCEPT !.pc = "rb_get", !.applyErr = msg, !.rbID = r.snapshotID],
         EvN("rb_enter", TRUE, r.snapshotID))

RenderedSysctl(profile) ==
  [k \in DOMAIN profile.sysctl |-> formatSysctlValue(profile.sysctl[k])]

ApplyWriteFile(c) ==
  /\ At(c, "w_file")
  /\ \E ok \in BOOLEAN :
       /\ Fault(ok)
       /\ IF ok
          THEN /\ sysfile' = [exists |-> TRUE, vals |-> RenderedSysctl(call[c].profile)]
               /\ SetCall(c, Logged([call[c] EXCEPT !.pc = "w_sysctl"], Ev("w_file", TRUE)))
          ELSE /\ UNCHANGED sysfile
               /\ SetCall(c, FailApply(Logged(call[c], Ev("w_file", FALSE)),
                                   "failed to write sysctl file"))
  /\ UNCHANGED <<kernel, qdisc, unit, storeVars, applyLock, ncalls>>

ApplySetSysctl(c) ==
  /\ At(c, "w_sysctl")
  /\ LET values == RenderedSysctl(call[c].profile) IN
     \E applied \in SUBSET DOMAIN values :
       /\ Fault(applied = DOMAIN values)
       /\ /\ kernel' = SysctlWritten(values, applied)
          /\ IF applied = DOMAIN values
             THEN SetCall(c, Logged([call[c] EXCEPT !.pc = AfterSysctl(call[c].profile)],
                                Ev("w_sysctl", TRUE)))
             ELSE SetCall(c, FailApply(Logged(call[c], Ev("w_sysctl", FALSE)),
                                   "failed to apply sysctl"))
  /\ UNCHANGED <<sysfile, qdisc, unit, storeVars, applyLock, ncalls>>

(* validate the qdisc parameters, then resolve the target interfaces *)
ApplyQdiscValidate(c) ==
  /\ At(c, "q_validate")
  /\ LET p == call[c].profile IN
     IF p.qdisc.hasParams /\ ~ValidateQdiscParams(p.qdisc.type, p.qdisc.params)
     THEN /\ SetCall(c, FailApply(Logged(call[c], Ev("q_validate", FALSE)),
                                   "qdisc validation failed"))
          /\ UNCHANGED faults
     ELSE \E ok \in BOOLEAN :
            LET ifs == TargetInterfaces(p, ok)
                r == Logged(call[c], Ev("q_validate", TRUE))
            IN /\ Fault(ok)
               /\ IF ok
                  THEN SetCall(c, Logged([r EXCEPT !.ifs = ifs, !.idx = 1,
                                            !.pc = IF Len(ifs) = 0 THEN AfterQdisc(p)
                                                   ELSE "w_qdisc"],
                                         Ev("q_resolve", TRUE)))
                  ELSE SetCall(c, FailApply(Logged(r, Ev("q_resolve", FALSE)),
                                            "failed to resolve interfaces"))
  /\ UNCHANGED <<sysVars, storeVars, applyLock, ncalls>>

ApplyQdiscSet(c) ==
  /\ At(c, "w_qdisc")
  /\ LET p == call[c].profile
         iface == call[c].ifs[call[c].idx]
     IN \E replaceOk \in BOOLEAN, delOk \in BOOLEAN, addOk \in BOOLEAN :
          LET res == QdiscSetResult(qdisc[iface], p.qdisc.type, p.qdisc.params,
                                    replaceOk, delOk, addOk)
          IN /\ Fault(replaceOk)
             /\ qdisc' = [qdisc EXCEPT ![iface] = res.q]
             /\ IF res.ok
                THEN SetCall(c, Logged([call[c] EXCEPT
                                      !.idx = @ + 1,
                                      !.pc = IF call[c].idx = Len(call[c].ifs)
                                             THEN AfterQdisc(p) ELSE "w_qdisc"],
                                   EvA("w_qdisc", TRUE, iface)))
                ELSE SetCall(c, FailApply(Logged(call[c], EvA("w_qdisc", FALSE, iface)),
                                      "failed to set qdisc"))
  /\ UNCHANGED <<kernel, sysfile, unit, storeVars, applyLock, ncalls>>

(* ensureQdiscService: script, unit file, enable, start; stops at the  *)
(* first failure, which applyChanges only logs                         *)
ApplyEnsureService(c) ==
  /\ At(c, "w_systemd")
  /\ \E n \in 0..4 :
       /\ Fault(n = 4)
       /\ /\ unit' = [script |-> unit.script \/ n >= 1, file |-> unit.file \/ n >= 2,
                      enabled |-> unit.enabled \/ n >= 3, active |-> unit.active \/ n >= 4]
          /\ SetCall(c, Logged([call[c] EXCEPT !.pc = "verify"], Ev("w_systemd", n = 4)))
  /\ UNCHANGED <<kernel, sysfile, qdisc, storeVars, applyLock, ncalls>>

(* verifyChanges: re-read what the profile set; a failed read of a sysctl *)
(* key or of an interface's qdisc is a verification error               *)
verifyChanges(profile, failKeys, ifOk, failIfs, activeOk, enabledOk) ==
  LET se == IF profile.hasSysctl
            THEN {k \in DOMAIN profile.sysctl :
                    \/ k \in failKeys
                    \/ normalizeSysctlValue(SysctlGet(k)) #
                       normalizeSysctlValue(formatSysctlValue(profile.sysctl[k]))}
            ELSE {}
      qe == IF profile.hasQdisc
            THEN {i \in SeqRange(TargetInterfaces(profile, ifOk)) :
                    i \in failIfs \/ qdisc[i].type # profile.qdisc.type}
            ELSE {}
      ue == IF profile.hasSystemd /\ profile.ensure_qdisc_service
               /\ (~(unit.active /\ activeOk) \/ ~(unit.enabled /\ enabledOk))
            THEN {NettuneQdiscServiceName} ELSE {}
  IN [done |-> TRUE, sysctl_ok |-> se = {}, qdisc_ok |-> qe = {}, systemd_ok |-> ue = {},
      errors |-> {<<"sysctl", k>> : k \in se} \cup {<<"qdisc", i>> : i \in qe}
                 \cup {<<"service", u>> : u \in ue}]

(* what Apply does with the verification result *)
VerificationFailed(v) == ~v.sysctl_ok \/ ~v.qdisc_ok

(* a failed verification returned without the rollback *)
FailVerifyNoRollback(r) ==
  [r EXCEPT !.pc = "unlock",
            !.result = [returned |-> TRUE, success |-> FALSE,
                        errors |-> <<"verification failed">>]]

(* verification failed: Apply calls rollbackInternal(snapshot.ID) *)
FailVerify(r) ==
  Logged([r EXCEPT !.pc = "rb_get", !.rbID = r.snapshotID],
         EvN("rb_enter", TRUE, r.snapshotID))

ApplyVerify(c) ==
  /\ At(c, "verify")
  /\ \E failKeys \in SUBSET DOMAIN call[c].profile.sysctl, ifOk \in BOOLEAN,
        failIfs \in SUBSET SeqRange(TargetInterfaces(call[c].profile, call[c].profile.hasQdisc)),
        activeOk \in BOOLEAN, enabledOk \in BOOLEAN :
       LET v == verifyChanges(call[c].profile, failKeys, ifOk, failIfs, activeOk, enabledOk)
           r == Logged([call[c] EXCEPT !.verification = v],
                       Ev("verify", ~VerificationFailed(v)))
       IN /\ Fault(failKeys = {} /\ ifOk /\ failIfs = {} /\ activeOk /\ enabledOk)
          /\ IF VerificationFailed(v)
             THEN SetCall(c, FailVerify(r))
             ELSE SetCall(c, [r EXCEPT !.pc = "record"])
  /\ UNCHANGED <<sysVars, storeVars, applyLock, ncalls>>

ApplyRecord(c) ==
  /\ At(c, "record")
  /\ history' = Append(history, [kind |-> "apply", profile_id |-> call[c].pid,
                                 snapshot_id |-> call[c].snapshotID, success |-> TRUE])
  /\ SetCall(c, Logged([call[c] EXCEPT !.pc = "unlock",
                          !.result = [NoResult EXCEPT !.returned = TRUE, !.success = TRUE]],
                       Ev("hist_apply", TRUE)))
  /\ UNCHANGED <<sysVars, cache, snapshots, applyLock, ncalls, faults, eval, disk>>

(* ------------------------------------------------------------------ *)
(* ApplyService.Rollback and rollbackInternal                          *)
(* ------------------------------------------------------------------ *)
(* RollbackLock running the deferred unlock on the rejected path too *)
RollbackLockClears(c) ==
  /\ At(c, "rb_lock")
  /\ IF applyLock
     THEN /\ SetCall(c, [call[c] EXCEPT !.pc = "unlock", !.err = "APPLY_IN_PROGRESS"])
          /\ UNCHANGED applyLock
     ELSE /\ applyLock' = TRUE
          /\ SetCall(c, Logged([call[c] EXCEPT !.pc = "rb_get", !.rbID = call[c].sid],
                               EvN("rb_enter", TRUE, call[c].sid)))
  /\ UNCHANGED <<sysVars, storeVars, ncalls, faults>>

RollbackLock(c) ==
  /\ At(c, "rb_lock")
  /\ IF applyLock
     THEN /\ SetCall(c, [call[c] EXCEPT !.pc = "done", !.err = "APPLY_IN_PROGRESS"])
          /\ UNCHANGED applyLock
     ELSE /\ applyLock' = TRUE
          /\ SetCall(c, Logged([call[c] EXCEPT !.pc = "rb_get", !.rbID = call[c].sid],
                               EvN("rb_enter", TRUE, call[c].sid)))
  /\ UNCHANGED <<sysVars, storeVars, ncalls, faults>>

RbSnap(c) == snapshots[call[c].rbID]

(* position after the sysctl restore and after the file loop *)
RbAfterSysctl(snap) == IF snap.backups.exists THEN "rb_file" ELSE "rb_qdisc"

RbGet(c) ==
  /\ At(c, "rb_get")
  /\ \E ok \in BOOLEAN :
       /\ Fault(ok)
       /\ IF HasSnapshot(call[c].rbID) /\ ok
          THEN SetCall(c, Logged([call[c] EXCEPT !.pc = "rb_sysctl"], Ev("rb_get", TRUE)))
          ELSE SetCall(c, Logged([call[c] EXCEPT !.pc = "rb_return",
                                    !.rbErr = IF HasSnapshot(call[c].rbID) THEN "INTERNAL"
                                              ELSE "SNAPSHOT_NOT_FOUND"],
                                 Ev("rb_get", FALSE)))
  /\ UNCHANGED <<sysVars, storeVars, applyLock, ncalls>>

(* a failed restore step ending the rollback *)
RbNextAbort(ok, next) == IF ok THEN next ELSE "rb_return"

(* a failed restore step leaves the next position unchanged *)
RbNext(ok, next) == next

RbSysctl(c) ==
  /\ At(c, "rb_sysctl")
  /\ LET values == RbSnap(c).state.sysctl IN
     \E applied \in SUBSET DOMAIN values :
       /\ Fault(applied = DOMAIN values)
       /\ /\ kernel' = SysctlWritten(values, applied)
          /\ SetCall(c, Logged([call[c] EXCEPT
                                  !.pc = RbNext(applied = DOMAIN values,
                                                RbAfterSysctl(RbSnap(c))),
                                  !.todo = DOMAIN RbSnap(c).state.qdisc],
                               Ev("rb_sysctl", applied = DOMAIN values)))
  /\ UNCHANGED <<sysfile, qdisc, unit, storeVars, applyLock, ncalls>>

RbFile(c) ==
  /\ At(c, "rb_file")
  /\ \E ok \in BOOLEAN :
       /\ Fault(ok)
       /\ /\ sysfile' = IF ok THEN RbSnap(c).backups ELSE sysfile
          /\ SetCall(c, Logged([call[c] EXCEPT !.pc = RbNext(ok, "rb_reload")],
                               EvA("rb_file", ok, SysctlFile)))
  /\ UNCHANGED <<kernel, qdisc, unit, storeVars, applyLock, ncalls>>

(* SysctlManager.LoadFromFile on the managed file as it is on disk *)
RbReload(c) ==
  /\ At(c, "rb_reload")
  /\ \E applied \in SUBSET DOMAIN sysfile.vals :
       /\ Fault(applied = DOMAIN sysfile.vals)
       /\ /\ kernel' = SysctlWritten(sysfile.vals, applied)
          /\ SetCall(c, Logged([call[c] EXCEPT
                                  !.pc = RbNext(applied = DOMAIN sysfile.vals, "rb_qdisc")],
                               Ev("rb_reload", applied = DOMAIN sysfile.vals)))
  /\ UNCHANGED <<sysfile, qdisc, unit, storeVars, applyLock, ncalls>>

RbQdisc(c) ==
  /\ At(c, "rb_qdisc")
  /\ IF call[c].todo = {}
     THEN /\ SetCall(c, [call[c] EXCEPT !.pc = "rb_hist"])
          /\ UNCHANGED <<qdisc, faults>>
     ELSE \E iface \in call[c].todo :
          \E replaceOk \in BOOLEAN, delOk \in BOOLEAN, addOk \in BOOLEAN :
            LET res == QdiscSetResult(qdisc[iface], RbSnap(c).state.qdisc[iface].type,
                                      EmptyMap, replaceOk, delOk, addOk)
            IN /\ Fault(replaceOk)
               /\ qdisc' = [qdisc EXCEPT ![iface] = res.q]
               /\ SetCall(c, Logged([call[c] EXCEPT
                                       !.todo = @ \ {iface},
                                       !.pc = RbNext(res.ok, "rb_qdisc")],
                                    EvA("rb_qdisc", res.ok, iface)))
  /\ UNCHANGED <<kernel, sysfile, unit, storeVars, applyLock, ncalls>>

RbHistory(c) ==
  /\ At(c, "rb_hist")
  /\ history' = Append(history, [kind |-> "rollback", profile_id |-> "",
                                 snapshot_id |-> call[c].rbID, success |-> TRUE])
  /\ SetCall(c, Logged([call[c] EXCEPT !.pc = "rb_return", !.rbErr = ""],
                       Ev("rb_hist", TRUE)))
  /\ UNCHANGED <<sysVars, cache, snapshots, applyLock, ncalls, faults, eval, disk>>

(* the original failure alone, the rollback outcome left out *)
ApplyErrorsOriginalOnly(r) ==
  IF r.verification.done THEN <<"verification failed">>
  ELSE <<"apply failed", r.applyErr>>

(* the errors a failed commit Apply reports after its rollback attempt *)
ApplyErrors(r) ==
  IF r.verification.done
  THEN IF r.rbErr # "" THEN <<"verification failed", "rollback also failed", r.rbErr>>
       ELSE <<"verification failed", "rolled back">>
  ELSE IF r.rbErr # "" THEN <<"apply failed", r.applyErr, "rollback also failed", r.rbErr>>
       ELSE <<"apply failed and rolled back", r.applyErr>>

(* Apply returning after its rollback without the deferred unlock *)
RbReturnDone(c) ==
  /\ At(c, "rb_return")
  /\ IF call[c].op = "rollback"
     THEN SetCall(c, [call[c] EXCEPT !.pc = "unlock", !.err = call[c].rbErr,
                        !.result = [NoResult EXCEPT !.returned = TRUE,
                                                    !.success = call[c].rbErr = ""]])
     ELSE SetCall(c, [call[c] EXCEPT !.pc = "done",
                        !.result = [returned |-> TRUE, success |-> FALSE,
                                    errors |-> ApplyErrors(call[c])]])
  /\ UNCHANGED <<sysVars, storeVars, applyLock, ncalls, faults>>

(* rollbackInternal returns to Rollback or to Apply *)
RbReturn(c) ==
  /\ At(c, "rb_return")
  /\ IF call[c].op = "rollback"
     THEN SetCall(c, [call[c] EXCEPT !.pc = "unlock", !.err = call[c].rbErr,
                        !.result = [NoResult EXCEPT !.returned = TRUE,
                                                    !.success = call[c].rbErr = ""]])
     ELSE SetCall(c, [call[c] EXCEPT !.pc = "unlock",
                        !.result = [returned |-> TRUE, success |-> FALSE,
                                    errors |-> ApplyErrors(call[c])]])
  /\ UNCHANGED <<sysVars, storeVars, applyLock, ncalls, faults>>

(* returning without the deferred function *)
UnlockSkipped(c) ==
  /\ At(c, "unlock")
  /\ SetCall(c, [call[c] EXCEPT !.pc = "done"])
  /\ UNCHANGED <<sysVars, storeVars, applyLock, ncalls, faults>>

(* the deferred function of Apply and of Rollback *)
Unlock(c) ==
  /\ At(c, "unlock")
  /\ applyLock' = FALSE
  /\ SetCall(c, [call[c] EXCEPT !.pc = "done"])
  /\ UNCHANGED <<sysVars, storeVars, ncalls, faults>>

Next ==
  \E c \in 1..NumCallers :
    \/ Return(c)
    \/ StartApply(c)
    \/ StartRollback(c)
    \/ StartSnapshot(c)
    \/ CreateSnapshot(c)
    \/ ApplyLock(c)
    \/ ApplyGetProfile(c)
    \/ ApplyValidate(c)
    \/ ApplyPlan(c)
    \/ ApplySnapshot(c)
    \/ ApplyWriteFile(c)
    \/ ApplySetSysctl(c)
    \/ ApplyQdiscValidate(c)
    \/ ApplyQdiscSet(c)
    \/ ApplyEnsureService(c)
    \/ ApplyVerify(c)
    \/ ApplyRecord(c)
    \/ RollbackLock(c)
    \/ RbGet(c)
    \/ RbSysctl(c)
    \/ RbFile(c)
    \/ RbReload(c)
    \/ RbQdisc(c)
    \/ RbHistory(c)
    \/ RbReturn(c)
    \/ Unlock(c)

Spec == Init /\ [][Next]_vars

(* one caller on a machine whose managed file is left from an earlier run *)
InitLeftover == InitWith({1}, MaxCalls, MaxFaults, LeftoverFile)

SpecLeftover == InitLeftover /\ [][Next]_vars

SpecConc == InitConc /\ [][Next]_vars

(* ------------------------------------------------------------------ *)
(* Properties                                                          *)
(* ------------------------------------------------------------------ *)
LockCheckPcs == {"apply_lock", "rb_lock"}

(* past the lock check of Apply or Rollback, deferred unlock not yet run *)
InBody(c) ==
  /\ call[c].op \in {"apply", "rollback"}
  /\ call[c].pc \notin {"idle", "done"} \cup LockCheckPcs

Rejected(c) == call[c].pc = "done" /\ call[c].err = "APPLY_IN_PROGRESS"

C1_State ==
  /\ Cardinality({c \in Callers : InBody(c)}) <= 1
  /\ applyLock <=> \E c \in Callers : InBody(c)
  /\ \A c \in Callers : call[c].err = "APPLY_IN_PROGRESS" =>
       call[c].pc = "done" /\ call[c].log = <<>> /\ ~call[c].result.returned

C1_Step ==
  \A c \in Callers :
    (call[c].pc \in LockCheckPcs /\ call'[c] # call[c]) =>
      IF applyLock
      THEN call'[c].pc = "done" /\ call'[c].err = "APPLY_IN_PROGRESS" /\ applyLock'
      ELSE call'[c].err = "" /\ call'[c].pc \notin {"done"} \cup LockCheckPcs /\ applyLock'

(* C1: Apply and Rollback exclude each other: at most one call is past its *)
(* lock check at any time, the lock flag is set exactly while one is; a    *)
(* call that reaches the lock check while the flag is set returns          *)
(* APPLY_IN_PROGRESS in that very step, having done nothing, and one that  *)
(* finds it clear proceeds.                                                *)
C1_MutualExclusion == []C1_State /\ [][C1_Step]_vars

(* an Apply holds the lock while a Rollback has been rejected, or the     *)
(* other way round                                                         *)
C1_Witness ==
  \E c \in Callers, d \in Callers :
    /\ c # d
    /\ InBody(c)
    /\ Rejected(d)
    /\ call[c].op # call[d].op

(* events of a call's log *)
Events(r) == {r.log[i].e : i \in 1..Len(r.log)}

FailedEvents(r) == {r.log[i].e : i \in {j \in 1..Len(r.log) : ~r.log[j].ok}}

MutatingEvents ==
  {"snapshot", "w_file", "w_sysctl", "w_qdisc", "w_systemd", "hist_apply",
   "rb_enter", "rb_sysctl", "rb_file", "rb_reload", "rb_qdisc", "rb_hist"}

IsDryRunCall(r) == r.op = "apply" /\ r.mode = "dry_run"

IsCommitCall(r) == r.op = "apply" /\ r.mode = "commit"

Finished(r) == r.pc = "done"

C2_Step ==
  \A c \in Callers :
    (IsDryRunCall(call[c]) /\ call'[c] # call[c]) =>
      UNCHANGED <<kernel, sysfile, qdisc, unit, snapshots, history, cache>>

C2_State ==
  \A c \in Callers :
    IsDryRunCall(call[c]) =>
      /\ call[c].snapshotID = 0
      /\ Events(call[c]) \cap MutatingEvents = {}
      /\ (Finished(call[c]) /\ call[c].err = "") =>
           /\ call[c].result = [returned |-> TRUE, success |-> TRUE, errors |-> <<>>]
           /\ \E ifOk \in BOOLEAN :
                call[c].plan = generatePlan(call[c].profile, GetCurrentState,
                                            TargetInterfaces(call[c].profile, ifOk))

(* C2: no step of an Apply with mode=dry_run changes the kernel's sysctl   *)
(* values, the managed file, a qdisc, the unit, the snapshot set or the    *)
(* history, the call creates no snapshot and makes no mutating call, and   *)
(* when it returns without an error code its result is success=true with   *)
(* the plan computed from the unchanged state.                             *)
C2_DryRunPurity == []C2_State /\ [][C2_Step]_vars

(* a dry run that has returned a plan with changes in all three sections *)
C2_Witness ==
  \E c \in Callers :
    /\ IsDryRunCall(call[c])
    /\ Finished(call[c])
    /\ call[c].result.success
    /\ DOMAIN call[c].plan.sysctl # {}
    /\ DOMAIN call[c].plan.qdisc # {}
    /\ DOMAIN call[c].plan.systemd # {}

(* the steps of applyChanges whose error it returns *)
ReturnedApplySteps == {"w_file", "w_sysctl", "q_validate", "q_resolve", "w_qdisc"}

(* the steps of applyChanges *)
ApplySteps == ReturnedApplySteps \cup {"w_systemd"}

(* the mutating adapter calls of applyChanges *)
ApplyWrites == {"w_file", "w_sysctl", "w_qdisc", "w_systemd"}

RollbackWrites == {"rb_sysctl", "rb_file", "rb_reload", "rb_qdisc"}

RolledBackOwn(r) ==
  /\ r.snapshotID # 0
  /\ \E i \in 1..Len(r.log) : r.log[i] = EvN("rb_enter", TRUE, r.snapshotID)

ReturnedFailure(r) == r.result.returned /\ ~r.result.success

C4_SuccessNeedsAllThree ==
  \A c \in Callers :
    (IsCommitCall(call[c]) /\ Finished(call[c])) =>
      LET v == call[c].verification IN
      /\ (call[c].result.returned /\ call[c].result.success) =>
           v.done /\ v.sysctl_ok /\ v.qdisc_ok /\ v.systemd_ok
      /\ (v.done /\ ~(v.sysctl_ok /\ v.qdisc_ok /\ v.systemd_ok)) =>
           RolledBackOwn(call[c]) /\ ReturnedFailure(call[c])

(* C5: a commit Apply that issued a mutating adapter call and returns     *)
(* anything other than success=true has, before returning, invoked        *)
(* rollback_internal with the id of the snapshot that same Apply created. *)
C5_FailedApplyAttemptedRevert ==
  \A c \in Callers :
    LET r == call[c] IN
    (IsCommitCall(r) /\ Finished(r) /\ Events(r) \cap ApplyWrites # {}
       /\ ~(r.result.returned /\ r.result.success)) =>
      /\ r.snapshotID \in 1..Len(snapshots)
      /\ \E i \in 1..Len(r.log), j \in 1..Len(r.log) :
           /\ i < j
           /\ r.log[i] = EvN("snapshot", TRUE, r.snapshotID)
           /\ r.log[j] = EvN("rb_enter", TRUE, r.snapshotID)
           /\ \A k \in 1..Len(r.log) : r.log[k].e \in RollbackWrites => k > j

(* every write of the Apply succeeded, verification failed, and the Apply *)
(* has returned success=false                                             *)
C5_Witness ==
  \E c \in Callers :
    /\ IsCommitCall(call[c])
    /\ Finished(call[c])
    /\ call[c].verification.done
    /\ FailedEvents(call[c]) \cap ApplySteps = {}
    /\ "w_qdisc" \in Events(call[c])
    /\ ReturnedFailure(call[c])

C6_Step ==
  \A c \in Callers :
    (IsCommitCall(call[c]) /\ call[c].snapshotID = 0 /\ call'[c] # call[c]) =>
      UNCHANGED <<kernel, sysfile, qdisc, unit, history>>

C6_State ==
  \A c \in Callers :
    IsCommitCall(call[c]) =>
      LET r == call[c] IN
      /\ \A i \in 1..Len(r.log) :
           r.log[i].e \in ApplyWrites \cup RollbackWrites =>
             /\ i > 5
             /\ r.log[1] = Ev("get", TRUE)
             /\ r.log[2] = Ev("validate", TRUE)
             /\ r.log[3] = Ev("state", TRUE)
             /\ r.log[4] = Ev("plan", TRUE)
             /\ r.log[5] = EvN("snapshot", TRUE, r.snapshotID)
             /\ r.snapshotID # 0
      /\ "snapshot" \in FailedEvents(r) =>
           /\ r.err = "INTERNAL"
           /\ ~r.result.returned
           /\ Events(r) \cap (ApplyWrites \cup RollbackWrites \cup {"rb_enter"}) = {}

(* C6: in a commit Apply the profile load, the validation, the state read, *)
(* the plan and then the snapshot all come before its first mutating       *)
(* adapter call, no step taken before the snapshot exists changes the      *)
(* system, and a failed snapshot creation makes Apply return an error      *)
(* with nothing mutated.                                                   *)
C6_SnapshotBeforeMutation == []C6_State /\ [][C6_Step]_vars

(* a commit Apply that has written a qdisc, its snapshot taken before *)
C6_Witness ==
  \E c \in Callers :
    /\ IsCommitCall(call[c])
    /\ call[c].snapshotID # 0
    /\ "w_qdisc" \in Events(call[c])
    /\ qdisc # snapshots[call[c].snapshotID].state.qdisc

(* C7: with every adapter call succeeding, a commit Apply of a profile    *)
(* followed by Rollback to the snapshot that Apply took leaves the tracked *)
(* sysctl values, every recorded interface's root qdisc, the managed       *)
(* unit's state and the managed sysctl file as they were at the snapshot.  *)
C7_RoundTrip ==
  \A c \in Callers :
    LET r == call[c]
        n == Len(history)
    IN (/\ r.op = "rollback" /\ Finished(r) /\ r.result.success
        /\ faults = MaxFaults
        /\ n >= 2
        /\ history[n - 1].kind = "apply" /\ history[n - 1].snapshot_id = r.sid
        /\ history[n].kind = "rollback" /\ history[n].snapshot_id = r.sid) =>
       LET snap == snapshots[r.sid] IN
       /\ \A k \in DOMAIN snap.state.sysctl : SysctlGet(k) = snap.state.sysctl[k]
       /\ \A i \in DOMAIN snap.state.qdisc : qdisc[i] = snap.state.qdisc[i]
       /\ unit.active = snap.state.systemd_units
       /\ sysfile = snap.backups

(* positions in the log of a call's events named e *)
Positions(r, e) == {i \in 1..Len(r.log) : r.log[i].e = e}

Before(r, e1, e2) == \A i \in Positions(r, e1), j \in Positions(r, e2) : i < j

(* rollback_internal ran through to its history record *)
RollbackRan(r) == "rb_hist" \in Events(r)

C8_Order ==
  \A c \in Callers :
    /\ Before(call[c], "rb_file", "rb_reload")
    /\ Before(call[c], "rb_reload", "rb_sysctl")
    /\ Before(call[c], "rb_file", "rb_sysctl")
    /\ Before(call[c], "rb_sysctl", "rb_qdisc")

C8_KernelHoldsSnapshot ==
  \A c \in Callers :
    (RollbackRan(call[c]) /\ FailedEvents(call[c]) \cap RollbackWrites = {}) =>
      \A k \in DOMAIN RbSnap(c).state.sysctl :
        SysctlGet(k) = RbSnap(c).state.sysctl[k]

(* C8: rollback restores the backed-up files, then reloads sysctl from the *)
(* restored managed file, then re-applies the snapshot's sysctl map, then  *)
(* sets the qdiscs back, so that after a rollback whose steps all          *)
(* succeeded the kernel holds the snapshot's sysctl values.                *)
C8_RestoreOrder == C8_Order /\ C8_KernelHoldsSnapshot

IsRestoreStep(ev) == ev.e \in RollbackWrites \cup {"rb_hist"}

(* how often restore step e on target a occurs in the sequence of events *)
Attempts(steps, e, a) ==
  Cardinality({i \in 1..Len(steps) : steps[i].e = e /\ steps[i].a = a})

RollbackOver(r) ==
  /\ Ev("rb_get", TRUE) \in SeqRange(r.log)
  /\ r.pc \in {"rb_return", "unlock", "done"}

(* C9: once the snapshot is loaded, rollback attempts every restore step   *)
(* exactly once whatever failed before it: the sysctl re-apply, the        *)
(* restore of the backed-up file and the sysctl reload when the snapshot   *)
(* holds a backup, the qdisc restore of each recorded interface, and the   *)
(* history record.                                                         *)
C9_BestEffortRollback ==
  \A c \in Callers :
    LET r == call[c]
        steps == SelectSeq(r.log, IsRestoreStep)
    IN
    /\ Attempts(steps, "rb_sysctl", "") <= 1
    /\ Attempts(steps, "rb_file", SysctlFile) <= 1
    /\ Attempts(steps, "rb_reload", "") <= 1
    /\ \A i \in Ifaces : Attempts(steps, "rb_qdisc", i) <= 1
    /\ RollbackOver(r) =>
         LET snap == snapshots[r.rbID]
             files == IF snap.backups.exists THEN 1 ELSE 0
         IN /\ Attempts(steps, "rb_sysctl", "") = 1
            /\ Attempts(steps, "rb_file", SysctlFile) = files
            /\ Attempts(steps, "rb_reload", "") = files
            /\ \A i \in DOMAIN snap.state.qdisc : Attempts(steps, "rb_qdisc", i) = 1
            /\ Attempts(steps, "rb_hist", "") = 1
            /\ r.rbErr = ""

(* a rollback whose file restore failed and which went on to the reload, *)
(* the qdiscs and the history record                                     *)
C9_Witness ==
  \E c \in Callers :
    /\ RollbackOver(call[c])
    /\ "rb_file" \in FailedEvents(call[c])
    /\ Before(call[c], "rb_file", "rb_reload")
    /\ Before(call[c], "rb_file", "rb_qdisc")
    /\ RollbackRan(call[c])

(* rank of an applyChanges step and of verification in the fixed order *)
ApplyRank(e) ==
  CASE e = "w_file" -> 1
    [] e = "w_sysctl" -> 2
    [] e = "q_validate" -> 3
    [] e = "q_resolve" -> 4
    [] e = "w_qdisc" -> 5
    [] e = "w_systemd" -> 6
    [] e = "verify" -> 7
    [] OTHER -> 0

IsRanked(ev) == ApplyRank(ev.e) > 0

IsQdiscSet(ev) == ev.e = "w_qdisc"

(* the interfaces whose qdisc was set, in the order of the calls *)
QdiscSetOrder(r) ==
  LET sets == SelectSeq(r.log, IsQdiscSet)
  IN [i \in 1..Len(sets) |-> sets[i].a]

IsPrefix(s, t) == Len(s) <= Len(t) /\ \A i \in 1..Len(s) : s[i] = t[i]

(* C10: in a commit Apply the managed file write, the sysctl set, the      *)
(* qdisc parameter validation, the qdisc set on each target interface in   *)
(* turn and the systemd unit's install/enable/start happen in this order,  *)
(* and verification reads only after every write the profile calls for     *)
(* was made.                                                               *)
C10_WriteOrder ==
  \A c \in Callers :
    IsCommitCall(call[c]) =>
      LET r == call[c]
          p == r.profile
          steps == SelectSeq(r.log, IsRanked)
          sets == QdiscSetOrder(r)
      IN /\ \A i \in 1..(Len(steps) - 1) :
              \/ ApplyRank(steps[i].e) < ApplyRank(steps[i + 1].e)
              \/ IsQdiscSet(steps[i]) /\ IsQdiscSet(steps[i + 1])
         /\ IsPrefix(sets, TargetInterfaces(p, p.hasQdisc))
         /\ "verify" \in Events(r) =>
              /\ FailedEvents(r) \cap ReturnedApplySteps = {}
              /\ p.hasSysctl => {"w_file", "w_sysctl"} \subseteq Events(r)
              /\ p.hasQdisc =>
                   /\ {"q_validate", "q_resolve"} \subseteq Events(r)
                   /\ sets = TargetInterfaces(p, TRUE)
              /\ (p.hasQdisc /\ p.hasSystemd /\ p.ensure_qdisc_service) =>
                   "w_systemd" \in Events(r)

(* a commit Apply of a profile with all three sections, verified *)
C10_Witness ==
  \E c \in Callers :
    /\ IsCommitCall(call[c])
    /\ call[c].profile.hasSysctl
    /\ call[c].profile.hasQdisc
    /\ call[c].profile.hasSystemd
    /\ Len(QdiscSetOrder(call[c])) = 2
    /\ "w_systemd" \in Events(call[c])
    /\ "verify" \in Events(call[c])
    /\ call[c].result.success

VerifiedInFull(v) == v.done /\ v.sysctl_ok /\ v.qdisc_ok /\ v.systemd_ok

(* C11: an apply history entry is recorded only by a commit Apply whose     *)
(* verification succeeded (sysctl, qdisc and systemd all verified), once    *)
(* per such Apply and after the verification; a dry run, a rejected call    *)
(* and an Apply that failed or was rolled back record none.                 *)
C11_HistoryOnlyAfterVerification ==
  \A c \in Callers :
    LET r == call[c]
        recs == Positions(r, "hist_apply")
    IN /\ recs # {} =>
            /\ IsCommitCall(r)
            /\ Cardinality(recs) = 1
            /\ VerifiedInFull(r.verification)
            /\ Before(r, "verify", "hist_apply")
            /\ "rb_enter" \notin Events(r)
       /\ (IsCommitCall(r) /\ Finished(r) /\ r.result.returned /\ r.result.success) =>
            Cardinality(recs) = 1
       /\ (Finished(r) /\ ~(r.result.returned /\ r.result.success)) => recs = {}
       /\ IsDryRunCall(r) => recs = {}

(* a call turned away at the lock check has done nothing, and the call   *)
(* that holds the flag still holds it                                    *)
C14_State ==
  \A d \in Callers :
    Rejected(d) =>
      /\ call[d].log = <<>>
      /\ call[d].snapshotID = 0
      /\ ~call[d].result.returned
      /\ applyLock
      /\ \E c \in Callers : c # d /\ InBody(c)

(* the rejecting step changes nothing but the rejected call itself *)
C14_Step ==
  \A d \in Callers :
    (call[d].pc \in LockCheckPcs /\ call'[d].err = "APPLY_IN_PROGRESS") =>
      /\ UNCHANGED <<sysVars, cache, snapshots, history, applyLock, ncalls, faults>>
      /\ applyLock
      /\ \A c \in Callers \ {d} : call'[c] = call[c]

(* C14: an Apply or Rollback rejected with APPLY_IN_PROGRESS has no effect: *)
(* it takes no snapshot, calls no adapter, writes no history, and leaves    *)
(* the lock flag set for the call that holds it, so that a further call     *)
(* arriving meanwhile is rejected as well.                                  *)
C14_RejectedHasNoEffect == []C14_State /\ [][C14_Step]_vars

(* a Rollback is turned away while an Apply has taken its snapshot and *)
(* written sysctls                                                     *)
C14_Witness ==
  \E c \in Callers, d \in Callers :
    /\ Rejected(d)
    /\ call[d].op = "rollback"
    /\ call[c].op = "apply"
    /\ call[c].snapshotID # 0
    /\ "w_sysctl" \in Events(call[c])
    /\ applyLock

(* a commit Apply that went into recovery or returned success=false *)
FailedCommit(r) ==
  /\ IsCommitCall(r)
  /\ Finished(r)
  /\ \/ "rb_enter" \in Events(r)
     \/ ReturnedFailure(r)
     \/ FailedEvents(r) \cap ReturnedApplySteps # {}
     \/ r.verification.done /\ VerificationFailed(r.verification)

Mentions(errors, word) == word # "" /\ word \in SeqRange(errors)

(* C15: a failed commit Apply returns success=false with non-empty errors; *)
(* when rollback_internal returned an error the errors name the original   *)
(* failure and the rollback failure, and when it returned without error    *)
(* they name the original failure and say that it was rolled back.         *)
C15_FailureDisclosed ==
  \A c \in Callers :
    LET r == call[c]
        errs == r.result.errors
        original == IF r.verification.done
                    THEN Mentions(errs, "verification failed")
                    ELSE Mentions(errs, r.applyErr)
    IN FailedCommit(r) =>
         /\ ReturnedFailure(r)
         /\ errs # <<>>
         /\ RolledBackOwn(r)
         /\ original
         /\ IF r.rbErr # ""
            THEN Mentions(errs, "rollback also failed") /\ Mentions(errs, r.rbErr)
            ELSE Mentions(errs, "rolled back") \/ Mentions(errs, "apply failed and rolled back")

(* a qdisc set failed and the snapshot could not be loaded for the rollback *)
C15_Witness ==
  \E c \in Callers :
    /\ FailedCommit(call[c])
    /\ "w_qdisc" \in FailedEvents(call[c])
    /\ call[c].rbErr # ""
    /\ Len(call[c].result.errors) = 4

(* C16: a Rollback whose snapshot id is not in the snapshot store returns  *)
(* SNAPSHOT_NOT_FOUND, has attempted no restore step and recorded no       *)
(* history entry, and the engine lock is free once it has returned.        *)
C16_UnknownSnapshot ==
  \A c \in Callers :
    LET r == call[c] IN
    (r.op = "rollback" /\ Finished(r) /\ ~HasSnapshot(r.sid)) =>
      /\ r.err = "SNAPSHOT_NOT_FOUND"
      /\ r.log = <<EvN("rb_enter", TRUE, r.sid), Ev("rb_get", FALSE)>>
      /\ Events(r) \cap (RollbackWrites \cup {"rb_hist"}) = {}
      /\ ~r.result.success
      /\ ~applyLock

(* the unknown id is asked for while a snapshot exists and the history   *)
(* already has an entry                                                  *)
C16_Witness ==
  \E c \in Callers :
    /\ call[c].op = "rollback"
    /\ Finished(call[c])
    /\ Len(snapshots) > 0
    /\ call[c].sid = Len(snapshots) + 1
    /\ call[c].err = "SNAPSHOT_NOT_FOUND"
    /\ history # <<>>

(* C17: an Apply, dry run or commit, whose profile id is not in the        *)
(* profile store returns PROFILE_NOT_FOUND before system state is read: no *)
(* snapshot, no mutation, no history entry, and the engine lock is free    *)
(* once it has returned.                                                   *)
C17_UnknownProfile ==
  \A c \in Callers :
    LET r == call[c] IN
    (r.op = "apply" /\ Finished(r) /\ ~\E p \in cache : p.id = r.pid) =>
      /\ r.err = "PROFILE_NOT_FOUND"
      /\ r.log = <<Ev("get", FALSE)>>
      /\ r.snapshotID = 0
      /\ ~r.result.returned
      /\ ~applyLock

(* the unknown profile is asked for in commit mode *)
C17_Witness ==
  \E c \in Callers :
    /\ IsCommitCall(call[c])
    /\ Finished(call[c])
    /\ call[c].pid = MissingProfileId
    /\ call[c].err = "PROFILE_NOT_FOUND"
    /\ ~applyLock

(* ------------------------------------------------------------------ *)
(* normalizeSysctlValue on its own                                     *)
(* ------------------------------------------------------------------ *)
NL == "\n"

StringsOver(alphabet) == UNION {[1..n -> alphabet] : n \in 0..MaxStrLen}

(* the idle request engine beside a function under evaluation *)
EvalInit(e) == EngineInit({1}, 0, 0, NoFile) /\ eval = e

engineVars == <<kernel, sysfile, qdisc, unit, cache, snapshots, history, applyLock, call,
                ncalls, faults, disk>>

InitNorm ==
  \E x \in StringsOver({"1", SP, TAB, NL}) :
    EvalInit([fn |-> "normalize", x |-> x, done |-> FALSE, y |-> <<>>, yy |-> <<>>])

(* normalizeSysctlValue applied to the value, and again to its result *)
Normalize ==
  /\ eval.fn = "normalize"
  /\ ~eval.done
  /\ eval' = [eval EXCEPT !.done = TRUE,
                             !.y = normalizeSysctlValue(eval.x),
                             !.yy = normalizeSysctlValue(normalizeSysctlValue(eval.x))]
  /\ UNCHANGED engineVars

NextNorm == Normalize

SpecNorm == InitNorm /\ [][NextNorm]_vars

(* the separators exchanged: tab for space and space for tab *)
SwapSeparators(s) ==
  [i \in 1..Len(s) |-> IF s[i] = SP THEN TAB ELSE IF s[i] = TAB THEN SP ELSE s[i]]

(* every separator doubled: the runs twice as long *)
RECURSIVE DoubleSeparators(_)
DoubleSeparators(s) ==
  IF s = <<>> THEN <<>>
  ELSE (IF Head(s) \in {SP, TAB} THEN <<Head(s), Head(s)>> ELSE <<Head(s)>>)
       \o DoubleSeparators(Tail(s))

HasWhitespaceRun(s) ==
  \E i \in 1..(Len(s) - 1) : IsSpaceChar(s[i]) /\ IsSpaceChar(s[i + 1])

Trimmed(s) == s = <<>> \/ (~IsSpaceChar(s[1]) /\ ~IsSpaceChar(s[Len(s)]))

Idempotent == eval.yy = eval.y

NoTab == \A i \in 1..Len(eval.y) : eval.y[i] # TAB

Canonical ==
  /\ ~HasWhitespaceRun(eval.y)
  /\ normalizeSysctlValue(SwapSeparators(eval.x)) = eval.y
  /\ normalizeSysctlValue(DoubleSeparators(eval.x)) = eval.y

Normalized == eval.fn = "normalize" /\ eval.done

(* the claim as stated: canonical for every string, other whitespace included *)
C18_CanonicalForAllWhitespace ==
  Normalized => Idempotent /\ NoTab /\ Trimmed(eval.y) /\ Canonical

(* C18: normalise is idempotent for every string over digits, spaces, tabs  *)
(* and newlines, and its result has no tab, no two adjacent spaces and no   *)
(* leading or trailing whitespace; for strings over digits, spaces and tabs *)
(* the result has no run of two or more whitespace characters, and values   *)
(* that differ only in tab-versus-space separators or in run lengths        *)
(* normalise to the same string.                                            *)
C18_NormaliseCanonical ==
  Normalized =>
    /\ Idempotent
    /\ NoTab
    /\ Trimmed(eval.y)
    /\ ~HasDoubleSpace(eval.y)
    /\ (\A i \in 1..Len(eval.x) : eval.x[i] # NL) => Canonical

(* a value with a run of three separators between two digits, collapsed *)
C18_Witness ==
  /\ Normalized
  /\ eval.x = <<"1", SP, TAB, SP, "1">>
  /\ eval.y = <<"1", SP, "1">>

(* ------------------------------------------------------------------ *)
(* generatePlan on its own                                             *)
(* ------------------------------------------------------------------ *)
(* a qdisc on the default-route interface only *)
ProfCakeRoute ==
  [id |-> "cake-dr", name |-> "cake on the uplink", risk_level |-> "high",
   hasSysctl |-> FALSE, sysctl |-> EmptyMap,
   hasQdisc |-> TRUE,
   qdisc |-> [type |-> "cake", interfaces |-> "default-route", hasParams |-> FALSE,
              params |-> EmptyMap],
   hasSystemd |-> FALSE, ensure_qdisc_service |-> FALSE]

PlanProfiles == {ProfBuf, ProfFqAll, ProfCakeRoute}

(* captured SystemState values: a key or an interface may be absent *)
CapturedSysctl ==
  {f \in UNION {[d -> {S1, <<"2">>, S1tab2, S1sp2}] : d \in {{"k2"}, {"k1", "k2"}}} :
     ("k1" \in DOMAIN f => f["k1"] \in {S1, <<"2">>}) /\ f["k2"] \in {S1tab2, S1sp2}}

CapturedQdisc ==
  UNION {[d -> {[type |-> "fq", params |-> EmptyMap],
                [type |-> "cake", params |-> EmptyMap]}] : d \in {{"eth0"}, {"eth0", "eth1"}}}

CapturedStates ==
  [sysctl : CapturedSysctl, qdisc : CapturedQdisc, systemd_units : BOOLEAN]

(* what the adapter answers while the plan is computed *)
LiveAnswers ==
  [listOk : BOOLEAN, list : {<<"eth0", "eth1">>, <<"eth1">>},
   routeOk : BOOLEAN, route : {"eth0", "eth1"}]

(* the interfaces generatePlan looks at: lookup errors are dropped *)
PlanInterfaces(profile, live) ==
  IF profile.qdisc.interfaces = "default-route"
  THEN IF live.routeOk THEN <<live.route>> ELSE <<>>
  ELSE IF live.listOk THEN live.list ELSE <<>>

InitPlan ==
  \E p \in PlanProfiles, st \in CapturedStates, l1 \in LiveAnswers, l2 \in LiveAnswers :
    EvalInit([fn |-> "plan", profile |-> p, state |-> st, live1 |-> l1, live2 |-> l2,
              done |-> FALSE, plan1 |-> NoPlan, plan2 |-> NoPlan])

(* two plan computations for the same profile and captured state *)
PlanTwice ==
  /\ eval.fn = "plan"
  /\ ~eval.done
  /\ eval' = [eval EXCEPT
                !.done = TRUE,
                !.plan1 = generatePlan(eval.profile, eval.state,
                                       PlanInterfaces(eval.profile, eval.live1)),
                !.plan2 = generatePlan(eval.profile, eval.state,
                                       PlanInterfaces(eval.profile, eval.live2))]
  /\ UNCHANGED engineVars

NextPlan == PlanTwice

SpecPlan == InitPlan /\ [][NextPlan]_vars

Planned == eval.fn = "plan" /\ eval.done

(* the differences between a profile and a captured state *)
SysctlNow(st, k) == IF k \in DOMAIN st.sysctl THEN st.sysctl[k] ELSE <<>>

QdiscTypeNow(st, i) == IF i \in DOMAIN st.qdisc THEN st.qdisc[i].type ELSE ""

SysctlDiffers(p, st) ==
  {k \in (IF p.hasSysctl THEN DOMAIN p.sysctl ELSE {}) :
     normalizeSysctlValue(SysctlNow(st, k)) #
     normalizeSysctlValue(formatSysctlValue(p.sysctl[k]))}

QdiscDiffers(p, st, targets) ==
  {i \in (IF p.hasQdisc THEN SeqRange(targets) ELSE {}) :
     QdiscTypeNow(st, i) # p.qdisc.type}

UnitMissing(p, st) ==
  p.hasSystemd /\ p.ensure_qdisc_service /\ ~st.systemd_units

C13_PlanIsPure == Planned => eval.plan1 = eval.plan2

(* ------------------------------------------------------------------ *)
(* formatSysctlValue on its own                                        *)
(* ------------------------------------------------------------------ *)
IntegerTypes ==
  {"int", "int8", "int16", "int32", "int64", "uint", "uint8", "uint16", "uint32", "uint64"}

NumericTypes == IntegerTypes \cup {"float32", "float64"}

(* the largest value of a type, capped at 2^31 - 1 *)
MaxOf(t) ==
  CASE t = "int8" -> 127
    [] t = "uint8" -> 255
    [] t = "int16" -> 32767
    [] t = "uint16" -> 65535
    [] t = "float32" -> 16777215
    [] OTHER -> 2147483647

RenderNumbers ==
  {0, 1, 9, 10, 99, 100, 127, 255, 4096, 32767, 65535, 123456, 999999, 1000000,
   1048576, 1234567, 16777215, 33554432, 2147483647}

RenderValues ==
  {TypedVal(t, n) : t \in NumericTypes, n \in RenderNumbers} \cup
  {StrVal(x) : x \in StringsOver({"4", "e", SP})}

InitRender ==
  \E v \in RenderValues :
    /\ v.t \in NumericTypes => v.n <= MaxOf(v.t)
    /\ EvalInit([fn |-> "render", v |-> v, done |-> FALSE, y |-> <<>>])

Render ==
  /\ eval.fn = "render"
  /\ ~eval.done
  /\ eval' = [eval EXCEPT !.done = TRUE, !.y = formatSysctlValue(eval.v)]
  /\ UNCHANGED engineVars

NextRender == Render

SpecRender == InitRender /\ [][NextRender]_vars

Rendered == eval.fn = "render" /\ eval.done

DigitValue(ch) ==
  CASE ch = "0" -> 0 [] ch = "1" -> 1 [] ch = "2" -> 2 [] ch = "3" -> 3 [] ch = "4" -> 4
    [] ch = "5" -> 5 [] ch = "6" -> 6 [] ch = "7" -> 7 [] ch = "8" -> 8 [] ch = "9" -> 9
    [] OTHER -> -1

(* the number a plain decimal numeral denotes, -1 for anything else *)
RECURSIVE ParseDecimal(_)
ParseDecimal(str) ==
  IF str = <<>> \/ DigitValue(str[Len(str)]) < 0 THEN -1
  ELSE IF Len(str) = 1 THEN DigitValue(str[1])
  ELSE LET front == ParseDecimal(SubSeq(str, 1, Len(str) - 1))
       IN IF front <= 0 THEN -1 ELSE front * 10 + DigitValue(str[Len(str)])

(* C19: a number n that arrives as a signed or unsigned integer of any     *)
(* width, or as a floating-point value with zero fractional part, renders  *)
(* as the plain decimal numeral of n: no 'e' in it, and it parses back to  *)
(* n; a string renders as itself.                                          *)
C19_PlainDecimal ==
  Rendered =>
    IF eval.v.t = "string" THEN eval.y = eval.v.s
    ELSE "e" \notin SeqRange(eval.y) /\ ParseDecimal(eval.y) = eval.v.n

(* ------------------------------------------------------------------ *)
(* ProfileService.Validate on its own                                  *)
(* ------------------------------------------------------------------ *)
TestIds == {"", "x", "ab", "9z", "a-b", "fq-all", "-ab", "ab-", "Ab", "a_b"}

TestKeys == {"", "k", "k1", "a.b", "a_b", "1k", "k.", "k_", "K1", "a-b"}

TestKeySets == {{}} \cup {{k} : k \in TestKeys} \cup {{"k1", kk} : kk \in {"a.b", "1k"}}

TestParamSets ==
  {{}, {"limit"}, {"bandwidth"}, {"flows"}, {"limit", "bandwidth"}, {"bogus"}}

TestQdiscs ==
  [type : {"fq", "fq_codel", "cake", "pfifo_fast", "htb", ""},
   interfaces : {"default-route", "all", "eth0"},
   hasParams : {TRUE},
   params : {[n \in ps |-> "1"] : ps \in TestParamSets}]
  \cup
  [type : {"fq", "htb"}, interfaces : {"all", ""}, hasParams : {FALSE}, params : {EmptyMap}]

TestProfiles ==
  {[id |-> id, name |-> nm, risk_level |-> rl,
    hasSysctl |-> TRUE, sysctl |-> [k \in ks |-> StrVal(S1)],
    hasQdisc |-> FALSE, qdisc |-> NoQdiscCfg,
    hasSystemd |-> FALSE, ensure_qdisc_service |-> FALSE] :
     id \in TestIds, nm \in {"", "n"}, rl \in {"low", "medium", "high", "", "Low"},
     ks \in TestKeySets}
  \cup
  {[id |-> id, name |-> "n", risk_level |-> rl,
    hasSysctl |-> FALSE, sysctl |-> EmptyMap,
    hasQdisc |-> TRUE, qdisc |-> q,
    hasSystemd |-> sd, ensure_qdisc_service |-> sd] :
     id \in {"ab", "ab-"}, rl \in {"high", "critical"}, q \in TestQdiscs, sd \in BOOLEAN}

InitValidate ==
  \E p \in TestProfiles :
    EvalInit([fn |-> "validate", p |-> p, done |-> FALSE, ok |-> FALSE])

RunValidate ==
  /\ eval.fn = "validate"
  /\ ~eval.done
  /\ eval' = [eval EXCEPT !.done = TRUE, !.ok = Validate(eval.p)]
  /\ UNCHANGED engineVars

NextValidate == RunValidate

SpecValidate == InitValidate /\ [][NextValidate]_vars

Validated == eval.fn = "validate" /\ eval.done

Digits == {"0", "1", "2", "3", "4", "5", "6", "7", "8", "9"}

Letters ==
  {"a", "b", "c", "d", "e", "f", "g", "h", "i", "j", "k", "l", "m",
   "n", "o", "p", "q", "r", "s", "t", "u", "v", "w", "x", "y", "z"}

(* cs is first, then any number of inner characters, then last *)
MatchesPattern(cs, first, inner, last) ==
  \E n \in 0..Len(cs) :
    /\ Len(cs) = n + 2
    /\ cs[1] \in first
    /\ \A i \in 2..(n + 1) : cs[i] \in inner
    /\ cs[n + 2] \in last

(* ^[a-z0-9][a-z0-9-]*[a-z0-9]$ *)
IdPattern(id) ==
  MatchesPattern(Chars(id), Letters \cup Digits, Letters \cup Digits \cup {"-"},
                 Letters \cup Digits)

(* ^[a-z][a-z0-9_.]*[a-z0-9]$ *)
KeyPattern(key) ==
  MatchesPattern(Chars(key), Letters, Letters \cup Digits \cup {"_", "."},
                 Letters \cup Digits)

(* C20: Validate accepts a profile iff its id matches                      *)
(* ^[a-z0-9][a-z0-9-]*[a-z0-9]$ (so: two characters or more, no hyphen at  *)
(* either end, no uppercase, no underscore), its name is non-empty, its    *)
(* risk_level is low, medium or high, every sysctl key matches             *)
(* ^[a-z][a-z0-9_.]*[a-z0-9]$, and, when there is a qdisc section, its     *)
(* type is fq, fq_codel, cake or pfifo_fast, its interfaces is             *)
(* default-route or all, and every parameter name is in the allow-list of  *)
(* that type.                                                              *)
C20_ValidateAcceptsIff ==
  Validated =>
    LET p == eval.p
        id == Chars(p.id)
    IN /\ eval.ok <=>
            /\ IdPattern(p.id)
            /\ p.name # ""
            /\ p.risk_level \in {"low", "medium", "high"}
            /\ \A k \in (IF p.hasSysctl THEN DOMAIN p.sysctl ELSE {}) : KeyPattern(k)
            /\ p.hasQdisc =>
                 /\ p.qdisc.type \in {"fq", "fq_codel", "cake", "pfifo_fast"}
                 /\ p.qdisc.interfaces \in {"default-route", "all"}
                 /\ \A n \in (IF p.qdisc.hasParams THEN DOMAIN p.qdisc.params ELSE {}) :
                      n \in validQdiscParams(p.qdisc.type)
       /\ eval.ok =>
            /\ Len(id) >= 2
            /\ id[1] # "-" /\ id[Len(id)] # "-"
            /\ \A i \in 1..Len(id) : id[i] \notin {"A", "_"}

(* fq with the parameter bandwidth, all else being valid, is rejected *)
C20_Witness ==
  /\ Validated
  /\ eval.p.id = "ab"
  /\ eval.p.risk_level = "high"
  /\ eval.p.hasQdisc
  /\ eval.p.qdisc.type = "fq"
  /\ eval.p.qdisc.interfaces = "all"
  /\ DOMAIN eval.p.qdisc.params = {"bandwidth"}
  /\ ~eval.ok

(* ------------------------------------------------------------------ *)
(* ProfileService on its own: start, Save, Get, List                   *)
(* ------------------------------------------------------------------ *)
PlainProfile(id, risk) ==
  [id |-> id, name |-> "n", risk_level |-> risk,
   hasSysctl |-> FALSE, sysctl |-> EmptyMap,
   hasQdisc |-> FALSE, qdisc |-> NoQdiscCfg,
   hasSystemd |-> FALSE, ensure_qdisc_service |-> FALSE]

ProfAbLow == PlainProfile("ab", "low")
ProfAbHigh == PlainProfile("ab", "high")

(* the built-in id with the user's own value, as a string and as an int *)
ProfBufUser == [ProfBuf EXCEPT !.sysctl = [k \in {"k1"} |-> StrVal(S3)]]
ProfBufInt == [ProfBuf EXCEPT !.sysctl = [k \in {"k1"} |-> TypedVal("int", 3)]]
ProfBufDup == [ProfBuf EXCEPT !.name = "copy", !.sysctl = [k \in {"k1"} |-> StrVal(S1)]]

(* a profile that does not pass Validate: htb is no managed qdisc type *)
ProfHtb ==
  [id |-> "ab", name |-> "n", risk_level |-> "high",
   hasSysctl |-> TRUE, sysctl |-> [k \in {"k1"} |-> NumVal(3)],
   hasQdisc |-> TRUE,
   qdisc |-> [type |-> "htb", interfaces |-> "all", hasParams |-> FALSE,
              params |-> EmptyMap],
   hasSystemd |-> FALSE, ensure_qdisc_service |-> FALSE]

(* what the directory may hold before the service starts *)
UserDirs ==
  {EmptyMap,
   [n \in {"buf"} |-> FileOf(ProfBufUser)],
   [n \in {"buf"} |-> Garbage],
   [n \in {"buf", "zz"} |-> IF n = "buf" THEN FileOf(ProfBufUser) ELSE FileOf(ProfBufDup)],
   [n \in {"zz"} |-> FileOf(ProfHtb)],
   [n \in {"fq-all", "zz"} |-> IF n = "zz" THEN FileOf(NoProfile) ELSE Garbage]}

SaveInputs == {ProfAbLow, ProfAbHigh, ProfBufInt, ProfCakeRoute, ProfHtb, NoProfile}

QueryIds == {"ab", "buf", "cake-dr", "fq-all", "no-such"}

CacheIds(c) == {p.id : p \in c}

(* ProfileService.Get: the error and the profile *)
Get(c, id) ==
  IF id \in CacheIds(c)
  THEN [err |-> "", p |-> CHOOSE p \in c : p.id = id]
  ELSE [err |-> "PROFILE_NOT_FOUND", p |-> NoProfile]

NoOp == [op |-> "none", id |-> "", p |-> NoProfile, err |-> "", got |-> NoProfile,
         count |-> 0, wrote |-> {}, diskBefore |-> EmptyMap, cacheBefore |-> {}]

InitStore ==
  /\ MachineInit({1}, 0, 0, NoFile)
  /\ disk \in UserDirs
  /\ cache = {}
  /\ eval = [fn |-> "store", started |-> FALSE, last |-> NoOp]

(* NewProfileService: copyBuiltinProfiles, then Reload; also every restart *)
NewProfileService ==
  /\ eval.fn = "store"
  /\ \E wrote \in [DOMAIN BuiltinFiles -> BOOLEAN] :
       /\ disk' = copyBuiltinProfiles(disk, wrote)
       /\ cache' = Reload(disk')
       /\ eval' = [eval EXCEPT !.started = TRUE,
                     !.last = [NoOp EXCEPT !.op = "start",
                                           !.wrote = {b \in DOMAIN wrote : wrote[b]},
                                           !.diskBefore = disk,
                                           !.cacheBefore = cache]]
  /\ UNCHANGED <<sysVars, snapshots, history, applyLock, call, ncalls, faults>>

(* ProfileService.Save; ok tells whether the file write succeeds *)
Save ==
  /\ eval.fn = "store"
  /\ eval.started
  /\ \E p \in SaveInputs, ok \in BOOLEAN :
       LET done(err) == [NoOp EXCEPT !.op = "save", !.p = p, !.err = err,
                                     !.diskBefore = disk, !.cacheBefore = cache]
       IN IF ~Validate(p)
          THEN /\ eval' = [eval EXCEPT !.last = done("VALIDATION_FAILED")]
               /\ UNCHANGED <<disk, cache>>
          ELSE IF ~ok
          THEN /\ eval' = [eval EXCEPT !.last = done("INTERNAL")]
               /\ UNCHANGED <<disk, cache>>
          ELSE /\ disk' = [n \in DOMAIN disk \cup {p.id} |->
                             IF n = p.id THEN FileOf(p) ELSE disk[n]]
               /\ cache' = CachePut(cache, p)
               /\ eval' = [eval EXCEPT !.last = done("")]
  /\ UNCHANGED <<sysVars, snapshots, history, applyLock, call, ncalls, faults>>

(* GET /profiles/:id *)
GetProfile ==
  /\ eval.fn = "store"
  /\ eval.started
  /\ \E id \in QueryIds :
       eval' = [eval EXCEPT !.last = [NoOp EXCEPT !.op = "get", !.id = id,
                                        !.err = Get(cache, id).err,
                                        !.got = Get(cache, id).p,
                                        !.diskBefore = disk, !.cacheBefore = cache]]
  /\ UNCHANGED engineVars

(* GET /profiles: one ProfileMeta for each cache entry *)
List ==
  /\ eval.fn = "store"
  /\ eval.started
  /\ eval' = [eval EXCEPT !.last = [NoOp EXCEPT !.op = "list",
                                      !.count = Cardinality(cache),
                                      !.diskBefore = disk, !.cacheBefore = cache]]
  /\ UNCHANGED engineVars

NextStore == NewProfileService \/ Save \/ GetProfile \/ List

SpecStore == InitStore /\ [][NextStore]_vars

LastOp == IF eval.fn = "store" THEN eval.last ELSE NoOp

EntriesFor(c, id) == Cardinality({p \in c : p.id = id})

(* C21: Save(P) succeeds only if Validate(P) does; a Save that fails       *)
(* validation writes no file and leaves the cache as it was; after a       *)
(* successful Save(P), Get(P.id) returns P, the file of P.id exists, List  *)
(* has exactly one entry for P.id, and a new id makes List one longer; Get *)
(* of an id that is not in the cache returns ErrProfileNotFound.           *)
C21_StoreReflectsSaves ==
  LET l == LastOp IN
  /\ (l.op = "save" /\ l.err = "") => Validate(l.p)
  /\ (l.op = "save" /\ ~Validate(l.p)) =>
       /\ l.err = "VALIDATION_FAILED"
       /\ disk = l.diskBefore
       /\ cache = l.cacheBefore
  /\ (l.op = "save" /\ l.err = "") =>
       /\ Get(cache, l.p.id) = [err |-> "", p |-> l.p]
       /\ l.p.id \in DOMAIN disk
       /\ disk[l.p.id] = FileOf(l.p)
       /\ EntriesFor(cache, l.p.id) = 1
       /\ l.p.id \notin CacheIds(l.cacheBefore) =>
            Cardinality(cache) = Cardinality(l.cacheBefore) + 1
       /\ \A q \in cache : q.id # l.p.id => q \in l.cacheBefore
  /\ (l.op = "get" /\ l.id \notin CacheIds(cache)) => l.err = "PROFILE_NOT_FOUND"
  /\ (l.op = "get" /\ l.id \in CacheIds(cache)) => l.err = "" /\ l.got \in cache
  /\ l.op = "list" => l.count = Cardinality(CacheIds(cache))

(* an id that is already in the cache has been saved again, with another *)
(* content                                                                *)
C21_Witness ==
  /\ LastOp.op = "save"
  /\ LastOp.err = ""
  /\ LastOp.p = ProfAbHigh
  /\ ProfAbLow \in LastOp.cacheBefore
  /\ cache = CachePut(LastOp.cacheBefore, ProfAbHigh)

(* the files of dir that parse and declare this id *)
Declaring(dir, id) == {n \in DOMAIN dir : dir[n].parses /\ dir[n].p.id = id}

NoRead == [op |-> "none", err |-> "", lockHeld |-> FALSE, busy |-> "none"]

(* the operation that is past its lock check, if any *)
Busy == IF \E c \in Callers : InBody(c)
        THEN (CHOOSE c \in Callers : InBody(c)) \* at most one, by the lock
        ELSE 0

ReadBy(op, err) ==
  [op |-> op, err |-> err, lockHeld |-> applyLock,
   busy |-> IF Busy = 0 THEN "none" ELSE call[Busy].op]

InitRead ==
  /\ EngineInit({1}, ConcCalls, ConcFaults, LeftoverFile)
  /\ eval = [fn |-> "read", last |-> NoRead]

LastRead == IF eval.fn = "read" THEN eval.last ELSE NoRead

(* no read is waiting for its response to be delivered *)
NoReadPending == eval.fn = "read" /\ eval.last = NoRead

(* GetStatus with the test of applyLock that Apply and Rollback make *)
GetStatusLocked ==
  /\ NoReadPending
  /\ \E ok \in BOOLEAN :
       eval' = [eval EXCEPT !.last =
                  IF applyLock THEN ReadBy("status", "APPLY_IN_PROGRESS")
                  ELSE IF ok THEN ReadBy("status", "")
                  ELSE ReadBy("status", "INTERNAL")]
  /\ UNCHANGED engineVars

(* ApplyService.GetStatus; ok tells whether the state read succeeds *)
GetStatus ==
  /\ NoReadPending
  /\ \E ok \in BOOLEAN :
       eval' = [eval EXCEPT !.last =
                  IF ok THEN ReadBy("status", "") ELSE ReadBy("status", "INTERNAL")]
  /\ UNCHANGED engineVars

(* GET /profiles and GET /profiles/:id *)
ReadProfiles ==
  /\ NoReadPending
  /\ \/ eval' = [eval EXCEPT !.last = ReadBy("profiles", "")]
     \/ \E id \in QueryIds :
          eval' = [eval EXCEPT !.last = ReadBy("profile", Get(cache, id).err)]
  /\ UNCHANGED engineVars

(* GET /sys/snapshots and GET /sys/snapshot/:id *)
ReadSnapshots ==
  /\ NoReadPending
  /\ \/ eval' = [eval EXCEPT !.last = ReadBy("snapshots", "")]
     \/ \E id \in 1..(Len(snapshots) + 1) :
          eval' = [eval EXCEPT !.last =
                     ReadBy("snapshot",
                            IF HasSnapshot(id) THEN "" ELSE "SNAPSHOT_NOT_FOUND")]
  /\ UNCHANGED engineVars

(* the response of a read is delivered *)
ReadReturn ==
  /\ eval.fn = "read"
  /\ eval.last # NoRead
  /\ eval' = [eval EXCEPT !.last = NoRead]
  /\ UNCHANGED engineVars

NextRead ==
  \/ Next
  \/ GetStatus
  \/ ReadProfiles
  \/ ReadSnapshots
  \/ ReadReturn

SpecRead == InitRead /\ [][NextRead]_vars

(* a step of a read path *)
C23_Step ==
  (eval' # eval /\ eval.last = NoRead) =>
    /\ UNCHANGED <<applyLock, call, sysVars, cache, snapshots, history>>
    /\ eval'.last.err # "APPLY_IN_PROGRESS"
    /\ eval'.last.lockHeld = applyLock

(* C23: GetStatus, profile List and Get and the snapshot reads never      *)
(* return APPLY_IN_PROGRESS and never change the engine's lock flag; they *)
(* start and complete while an Apply or a Rollback holds the lock.        *)
C23_ReadsTakeNoLock ==
  [](LastRead.err # "APPLY_IN_PROGRESS") /\ [][C23_Step]_vars

(* a status read completed while a Rollback was restoring, and the       *)
(* Rollback is still where it was                                        *)
C23_Witness ==
  /\ LastRead.op = "status"
  /\ LastRead.err = ""
  /\ LastRead.lockHeld
  /\ LastRead.busy = "rollback"
  /\ applyLock
  /\ \E c \in Callers : call[c].op = "rollback" /\ call[c].pc = "rb_qdisc"

(* ------------------------------------------------------------------ *)
(* QdiscManager.Set on its own: the tc commands it runs                *)
(* ------------------------------------------------------------------ *)
(* the orders in which a Go map's entries may be ranged over *)
RangeOrders(m) ==
  {o \in [1..Cardinality(DOMAIN m) -> DOMAIN m] : \A i, j \in DOMAIN o : o[i] = o[j] => i = j}

(* key and value arguments appended in the order of the range *)
ParamArgs(m, o) == [i \in DOMAIN o |-> <<o[i], m[o[i]]>>]

Tc(verb, iface, qdiscType, args) ==
  [verb |-> verb, dev |-> iface, type |-> qdiscType, args |-> args]

(* Set that clears the root qdisc before adding, without trying replace *)
SetCommandsDelFirst(iface, qdiscType, params, o1, o2, replaceOk) ==
  <<Tc("del", iface, "", <<>>), Tc("add", iface, qdiscType, ParamArgs(params, o2))>>

(* the commands Set runs, given whether tc qdisc replace succeeds *)
SetCommands(iface, qdiscType, params, o1, o2, replaceOk) ==
  IF replaceOk THEN <<Tc("replace", iface, qdiscType, ParamArgs(params, o1))>>
  ELSE <<Tc("replace", iface, qdiscType, ParamArgs(params, o1)),
         Tc("del", iface, "", <<>>),
         Tc("add", iface, qdiscType, ParamArgs(params, o2))>>

TcParams ==
  {EmptyMap, [n \in {"limit"} |-> "100"],
   [n \in {"limit", "quantum"} |-> IF n = "limit" THEN "100" ELSE "3028"]}

InitSet ==
  \E iface \in Ifaces, t \in {"fq", "cake"}, ps \in TcParams,
     replaceOk \in BOOLEAN, delOk \in BOOLEAN, addOk \in BOOLEAN :
    EvalInit([fn |-> "set", iface |-> iface, type |-> t, params |-> ps,
              replaceOk |-> replaceOk, delOk |-> delOk, addOk |-> addOk,
              done |-> FALSE, cmds |-> <<>>, ok |-> FALSE, q |-> DefaultQdisc])

(* QdiscManager.Set *)
QdiscSet ==
  /\ eval.fn = "set"
  /\ ~eval.done
  /\ \E o1 \in RangeOrders(eval.params), o2 \in RangeOrders(eval.params) :
       LET res == QdiscSetResult(DefaultQdisc, eval.type, eval.params,
                                 eval.replaceOk, eval.delOk, eval.addOk)
       IN eval' = [eval EXCEPT
                     !.done = TRUE,
                     !.cmds = SetCommands(eval.iface, eval.type, eval.params, o1, o2,
                                          eval.replaceOk),
                     !.ok = res.ok,
                     !.q = res.q]
  /\ UNCHANGED engineVars

NextSet == QdiscSet

SpecSet == InitSet /\ [][NextSet]_vars

Verbs(cmds) == [i \in DOMAIN cmds |-> cmds[i].verb]

ArgSet(cmd) == {cmd.args[i] : i \in DOMAIN cmd.args}

(* C24: Set first runs replace; when replace succeeds it runs neither del  *)
(* nor add and succeeds; only when replace fails it runs del, whatever del *)
(* returns, and then add with the same type and the same parameters; Set   *)
(* returns an error iff replace and the add after it both failed.          *)
C24_ReplaceThenFallback ==
  (eval.fn = "set" /\ eval.done) =>
    LET cmds == eval.cmds
        wanted == {<<k, eval.params[k]>> : k \in DOMAIN eval.params}
    IN /\ cmds[1].verb = "replace"
       /\ cmds[1].dev = eval.iface /\ cmds[1].type = eval.type
       /\ ArgSet(cmds[1]) = wanted /\ Len(cmds[1].args) = Cardinality(wanted)
       /\ eval.replaceOk => Verbs(cmds) = <<"replace">> /\ eval.ok
       /\ ~eval.replaceOk =>
            /\ Verbs(cmds) = <<"replace", "del", "add">>
            /\ cmds[2].dev = eval.iface
            /\ cmds[3].dev = eval.iface /\ cmds[3].type = cmds[1].type
            /\ ArgSet(cmds[3]) = ArgSet(cmds[1])
            /\ Len(cmds[3].args) = Len(cmds[1].args)
       /\ ~eval.ok <=> (~eval.replaceOk /\ ~eval.addOk)
       /\ eval.ok => eval.q = [type |-> eval.type, params |-> eval.params]

(* replace failed, del failed too, the add went through: Set succeeded *)
C24_Witness ==
  /\ eval.fn = "set"
  /\ eval.done
  /\ ~eval.replaceOk /\ ~eval.delOk /\ eval.addOk
  /\ Cardinality(DOMAIN eval.params) = 2
  /\ Len(eval.cmds) = 3
  /\ eval.cmds[3].args # eval.cmds[1].args
  /\ eval.ok

(* ------------------------------------------------------------------ *)
(* QdiscManager.Get on its own: parsing the output of tc qdisc show    *)
(* ------------------------------------------------------------------ *)
(* a line is the sequence of its words and of the blanks between them *)
RECURSIVE Fields(_)
Fields(line) ==
  IF line = <<>> THEN <<>>
  ELSE IF IsSpaceChar(Head(line)) THEN Fields(Tail(line))
  ELSE <<Head(line)>> \o Fields(Tail(line))

(* strings.Contains(line, "root") for the words of the model *)
ContainsRoot(line) == \E i \in DOMAIN line : line[i] = "root"

(* strings.TrimSuffix(word, ":") *)
TrimColon(word) ==
  CASE word = "8001:" -> "8001"
    [] word = "0:" -> "0"
    [] word = ":" -> ""
    [] OTHER -> word

NoQdiscInfo == [err |-> "", type |-> "", handle |-> "", params |-> EmptyMap]

(* the loop of parseQdiscLine from index i on (i counts from 0, as in Go) *)
RECURSIVE ParseParams(_, _, _)
ParseParams(fields, i, params) ==
  IF ~(i < Len(fields) - 1) THEN params
  ELSE LET key == fields[i + 1] IN
       IF key = "root" \/ key = "refcnt" THEN ParseParams(fields, i + 2, params)
       ELSE ParseParams(fields, i + 2,
                        [k \in DOMAIN params \cup {key} |->
                           IF k = key THEN fields[i + 2] ELSE params[k]])

parseQdiscLine(line) ==
  LET fields == Fields(line) IN
  IF Len(fields) < 3 THEN [NoQdiscInfo EXCEPT !.err = "invalid qdisc line"]
  ELSE IF fields[1] # "qdisc" THEN [NoQdiscInfo EXCEPT !.err = "unexpected qdisc output"]
  ELSE [err |-> "", type |-> fields[2], handle |-> TrimColon(fields[3]),
        params |-> ParseParams(fields, 3, EmptyMap)]

(* QdiscManager.Get on the lines of the command's output *)
QdiscGet(lines) ==
  IF \E i \in DOMAIN lines : ContainsRoot(lines[i])
  THEN parseQdiscLine(lines[CHOOSE i \in DOMAIN lines :
                              /\ ContainsRoot(lines[i])
                              /\ \A j \in 1..(i - 1) : ~ContainsRoot(lines[j])])
  ELSE parseQdiscLine(lines[1])

PairPool == {<<"limit", "10000p">>, <<"flow_limit", "100p">>, <<"buckets", "1024">>}

(* up to MaxPairs key/value pairs with different keys *)
PairLists ==
  UNION {{o \in [1..n -> PairPool] : \A i, j \in 1..n : o[i] = o[j] => i = j} :
           n \in 0..MaxPairs}

RECURSIVE Flatten(_)
Flatten(pairs) ==
  IF pairs = <<>> THEN <<>>
  ELSE <<SP, Head(pairs)[1], SP, Head(pairs)[2]>> \o Flatten(Tail(pairs))

(* qdisc <type> <handle>: root refcnt <n> k1 v1 ... km vm *)
RootLine(type, handle, n, pairs) ==
  <<"qdisc", SP, type, SP, handle, SP, "root", SP, "refcnt", SP, n>> \o Flatten(pairs)

(* the line of a class qdisc, which tc prints for some devices *)
ChildLine == <<"qdisc", SP, "fq_codel", SP, "0:", SP, "parent", SP, "8001:1">>

InitParse ==
  \E type \in {"fq", "mq"}, handle \in {"8001:", "0:"}, n \in {"2", "17"},
     pairs \in PairLists, childFirst \in BOOLEAN :
    EvalInit([fn |-> "parse", type |-> type, handle |-> handle, n |-> n, pairs |-> pairs,
              lines |-> (IF childFirst THEN <<ChildLine>> ELSE <<>>)
                        \o <<RootLine(type, handle, n, pairs)>>,
              done |-> FALSE, info |-> NoQdiscInfo])

Parse ==
  /\ eval.fn = "parse"
  /\ ~eval.done
  /\ eval' = [eval EXCEPT !.done = TRUE, !.info = QdiscGet(eval.lines)]
  /\ UNCHANGED engineVars

NextParse == Parse

SpecParse == InitParse /\ [][NextParse]_vars

(* C25: Get parses the first line that contains root; for a line           *)
(* qdisc <type> <handle>: root refcnt <n> k1 v1 ... km vm it yields the    *)
(* type, the handle without its colon, and the parameters k1: v1, ...,     *)
(* km: vm and nothing else: neither root, refcnt nor the count is a key or *)
(* a value, and no pair is dropped or shifted.                             *)
C25_ParseYieldsPairs ==
  (eval.fn = "parse" /\ eval.done) =>
    LET info == eval.info
        pairs == eval.pairs
    IN /\ info.err = ""
       /\ info.type = eval.type
       /\ info.handle = TrimColon(eval.handle)
       /\ DOMAIN info.params = {pairs[i][1] : i \in DOMAIN pairs}
       /\ \A i \in DOMAIN pairs : info.params[pairs[i][1]] = pairs[i][2]

(* ------------------------------------------------------------------ *)
(* middleware.RateLimiter                                              *)
(* ------------------------------------------------------------------ *)
(* the refill interval, in ticks of the clock *)
Interval == 4

ClientKeys == {"10.0.0.1", "10.0.0.2"}

(* the client whose granted requests are counted, tick by tick *)
TrackedKey == "10.0.0.1"

(* NewRateLimiter: burst defaults to rate *)
NewRateLimiter(rate, burst) ==
  [fn |-> "limiter", rate |-> rate, burst |-> IF burst <= 0 THEN rate ELSE burst,
   now |-> 0, requests |-> EmptyMap,
   last |-> [key |-> "", at |-> 0, allowed |-> FALSE, before |-> EmptyMap],
   track |-> FALSE, grants |-> [t \in 0..MaxTime |-> 0]]

InitLimiter ==
  \E rate \in 1..MaxRate, burst \in 0..MaxBurst : EvalInit(NewRateLimiter(rate, burst))

(* time passes *)
Tick ==
  /\ eval.fn = "limiter"
  /\ eval.now < MaxTime
  /\ eval' = [eval EXCEPT !.now = @ + 1]
  /\ UNCHANGED engineVars

(* int(float64(rate) * float64(elapsed) / float64(interval)) *)
TokensToAdd(rate, elapsed) == (rate * elapsed) \div Interval

(* the partial refill without the cap at burst *)
RefillUncapped(b, add, burst, now) ==
  IF add > 0 THEN [tokens |-> b.tokens + add, lastReset |-> now] ELSE b

(* the partial refill of a bucket *)
Refill(b, add, burst, now) ==
  IF add > 0
  THEN [tokens |-> IF b.tokens + add > burst THEN burst ELSE b.tokens + add,
        lastReset |-> now]
  ELSE b

(* Allow: the bucket of the key afterwards and the answer *)
AllowResult(r, key) ==
  IF key \notin DOMAIN r.requests
  THEN [b |-> [tokens |-> r.burst - 1, lastReset |-> r.now], allowed |-> TRUE]
  ELSE LET b == r.requests[key]
           elapsed == r.now - b.lastReset
       IN IF elapsed >= Interval
          THEN [b |-> [tokens |-> r.burst - 1, lastReset |-> r.now], allowed |-> TRUE]
          ELSE LET nb == Refill(b, TokensToAdd(r.rate, elapsed), r.burst, r.now)
               IN IF nb.tokens > 0
                  THEN [b |-> [nb EXCEPT !.tokens = @ - 1], allowed |-> TRUE]
                  ELSE [b |-> nb, allowed |-> FALSE]

(* RateLimiter.Allow, under RateLimiter.mu *)
Allow ==
  /\ eval.fn = "limiter"
  /\ \E key \in ClientKeys :
       LET res == AllowResult(eval, key) IN
       eval' = [eval EXCEPT
                  !.requests = [k \in DOMAIN eval.requests \cup {key} |->
                                  IF k = key THEN res.b ELSE eval.requests[k]],
                  !.last = [key |-> key, at |-> eval.now, allowed |-> res.allowed,
                            before |-> eval.requests],
                  !.grants = IF eval.track /\ res.allowed /\ key = TrackedKey
                             THEN [@ EXCEPT ![eval.now] = @ + 1] ELSE @]
  /\ UNCHANGED engineVars

NextLimiter == Tick \/ Allow

SpecLimiter == InitLimiter /\ [][NextLimiter]_vars

Min(a, b) == IF a < b THEN a ELSE b

(* C26: one bucket per client key: Allow(k) changes k's bucket only, the   *)
(* first request of a new key is allowed, after every Allow(k) the tokens  *)
(* of the bucket lie in 0..burst-1, and Allow(k) answers false only when   *)
(* the bucket, refilled for the time elapsed, holds no token.              *)
C26_TokenBucketPerKey ==
  (eval.fn = "limiter" /\ eval.last.key # "") =>
    LET k == eval.last.key
        before == eval.last.before
    IN /\ DOMAIN eval.requests = DOMAIN before \cup {k}
       /\ \A o \in DOMAIN before \ {k} : eval.requests[o] = before[o]
       /\ k \notin DOMAIN before => eval.last.allowed
       /\ \A o \in DOMAIN eval.requests :
            eval.requests[o].tokens \in 0..(eval.burst - 1)
       /\ ~eval.last.allowed =>
            LET elapsed == eval.last.at - before[k].lastReset IN
            /\ elapsed < Interval
            /\ Min(eval.burst, before[k].tokens + (eval.rate * elapsed) \div Interval) = 0
       /\ (k \in DOMAIN before /\ eval.last.allowed
             /\ eval.last.at - before[k].lastReset < Interval) =>
            before[k].tokens + (eval.rate * (eval.last.at - before[k].lastReset)) \div Interval > 0

(* a client with a bucket of two is refused after a partial refill was  *)
(* spent, while the bucket of the other client is left as it was        *)
C26_Witness ==
  /\ eval.fn = "limiter"
  /\ eval.last.key = "10.0.0.1"
  /\ ~eval.last.allowed
  /\ eval.burst = 2
  /\ eval.last.at > 0
  /\ "10.0.0.2" \in DOMAIN eval.requests
  /\ eval.requests["10.0.0.2"].tokens = 1

(* ------------------------------------------------------------------ *)
(* cli.ts: buildClientArgs                                             *)
(* ------------------------------------------------------------------ *)
ApiKeys == {"", "test-key", "--server", "latest"}

ServerUrls == {"http://127.0.0.1:9876", "", "--api-key", "test-key"}

VersionTags == {"latest", "v1.0.0"}

CLIOptions ==
  [apiKey : ApiKeys, server : ServerUrls, version : VersionTags, verbose : BOOLEAN]

(* the list with the version and the verbose flag passed on *)
buildClientArgsAll(options) ==
  <<"--api-key", options.apiKey, "--server", options.server>>
    \o <<"--version-tag", options.version>>
    \o (IF options.verbose THEN <<"--verbose">> ELSE <<>>)

(* buildClientArgs: two pushes of two strings each *)
buildClientArgs(options) ==
  <<"--api-key", options.apiKey>> \o <<"--server", options.server>>

InitArgs ==
  \E options \in CLIOptions :
    EvalInit([fn |-> "args", options |-> options, done |-> FALSE, args |-> <<>>])

BuildArgs ==
  /\ eval.fn = "args"
  /\ ~eval.done
  /\ eval' = [eval EXCEPT !.done = TRUE, !.args = buildClientArgs(eval.options)]
  /\ UNCHANGED engineVars

NextArgs == BuildArgs

SpecArgs == InitArgs /\ [][NextArgs]_vars

(* C27: in the list buildClientArgs returns, --api-key is immediately       *)
(* followed by the api key and --server by the server URL, and the list is  *)
(* the same whatever the version and verbose options are.                   *)
C27_ClientArgs ==
  (eval.fn = "args" /\ eval.done) =>
    /\ \E i \in 1..(Len(eval.args) - 1) :
         eval.args[i] = "--api-key" /\ eval.args[i + 1] = eval.options.apiKey
    /\ \E i \in 1..(Len(eval.args) - 1) :
         eval.args[i] = "--server" /\ eval.args[i + 1] = eval.options.server
    /\ Len(eval.args) = 4
    /\ \A v \in VersionTags, b \in BOOLEAN :
         buildClientArgs([eval.options EXCEPT !.version = v, !.verbose = b]) = eval.args

(* a verbose run pinned to a version, whose api key reads like a flag *)
C27_Witness ==
  /\ eval.fn = "args"
  /\ eval.done
  /\ eval.options.verbose
  /\ eval.options.version = "v1.0.0"
  /\ eval.options.apiKey = "--server"
  /\ eval.args[4] = "http://127.0.0.1:9876"

(* ------------------------------------------------------------------ *)
(* Requests of any shape on a server with a user's file                *)
(* ------------------------------------------------------------------ *)
(* mode strings other than the two the API names *)
OtherModes == {"", "COMMIT", "preview"}

(* the profiles directory with a file whose profile fails Validate *)
DirWithInvalid ==
  [n \in DOMAIN BuiltinDir \cup {"zz"} |->
     IF n = "zz" THEN FileOf(ProfHtb) ELSE BuiltinDir[n]]

(* the server started on that directory: Reload caches what parses *)
InitRequests ==
  /\ MachineInit({1}, MaxCalls, MaxFaults, NoFile)
  /\ disk = DirWithInvalid
  /\ cache = Reload(disk)
  /\ eval = NoEval

(* POST /sys/apply with any cached or unknown profile id and any mode *)
StartApplyAny(c) ==
  /\ Free(c)
  /\ ncalls > 0
  /\ \E pid \in CacheIds(cache) \cup {MissingProfileId}, mode \in Modes \cup OtherModes :
       SetCall(c, [IdleCall EXCEPT !.pc = "apply_lock", !.op = "apply",
                               !.pid = pid, !.mode = mode])
  /\ ncalls' = ncalls - 1
  /\ UNCHANGED <<sysVars, storeVars, applyLock, faults>>

CreateInputs == {ProfAbLow, ProfHtb}

(* POST /profiles: ProfileService.Save, at any moment of an Apply *)
CreateProfile ==
  /\ Delivered
  /\ ncalls > 0
  /\ \E p \in CreateInputs, ok \in BOOLEAN :
       /\ Validate(p) \/ ok
       /\ Fault(ok)
       /\ IF Validate(p) /\ ok
          THEN /\ disk' = [n \in DOMAIN disk \cup {p.id} |->
                             IF n = p.id THEN FileOf(p) ELSE disk[n]]
               /\ cache' = CachePut(cache, p)
          ELSE UNCHANGED <<disk, cache>>
  /\ ncalls' = ncalls - 1
  /\ UNCHANGED <<sysVars, snapshots, history, eval, applyLock, call>>

NextRequests ==
  \/ Next
  \/ CreateProfile
  \/ \E c \in 1..NumCallers : StartApplyAny(c)

SpecRequests == InitRequests /\ [][NextRequests]_vars

(* a user's file that declares the id of a built-in profile and fails    *)
(* Validate: Reload reads it last and caches it under that id            *)
DirWithOverride ==
  [n \in DOMAIN BuiltinDir \cup {"zz"} |->
     IF n = "zz" THEN FileOf([ProfHtb EXCEPT !.id = ProfBuf.id]) ELSE BuiltinDir[n]]

InitLive ==
  /\ MachineInit({1}, MaxCalls, MaxFaults, NoFile)
  /\ disk = DirWithOverride
  /\ cache = Reload(disk)
  /\ eval = NoEval

(* a step of the handler caller c is in *)
HandlerStep(c) ==
  \/ Return(c)
  \/ CreateSnapshot(c)
  \/ ApplyLock(c)
  \/ ApplyGetProfile(c)
  \/ ApplyValidate(c)
  \/ ApplyPlan(c)
  \/ ApplySnapshot(c)
  \/ ApplyWriteFile(c)
  \/ ApplySetSysctl(c)
  \/ ApplyQdiscValidate(c)
  \/ ApplyQdiscSet(c)
  \/ ApplyEnsureService(c)
  \/ ApplyVerify(c)
  \/ ApplyRecord(c)
  \/ RollbackLock(c)
  \/ RbGet(c)
  \/ RbSysctl(c)
  \/ RbFile(c)
  \/ RbReload(c)
  \/ RbQdisc(c)
  \/ RbHistory(c)
  \/ RbReturn(c)
  \/ Unlock(c)

(* adapter calls return and goroutines are scheduled: a handler that can  *)
(* take a step eventually takes one                                       *)
SpecLive == InitLive /\ [][Next]_vars /\ \A c \in 1..NumCallers : WF_vars(HandlerStep(c))

(* C28: the lock is held only while a handler is between its entry and its *)
(* return, a held lock is eventually free, and with calls one after the    *)
(* other none is rejected with APPLY_IN_PROGRESS.                          *)
C28_LockReleased ==
  /\ []((\A c \in Callers : call[c].pc \in {"idle", "done"}) => ~applyLock)
  /\ [](\A c \in Callers : call[c].err # "APPLY_IN_PROGRESS")
  /\ (applyLock ~> ~applyLock)

(* the second call in a row has returned VALIDATION_FAILED, after a first  *)
(* one that went through a snapshot, and the lock is free                  *)
C28_Witness ==
  \E c \in Callers :
    /\ Finished(call[c])
    /\ call[c].err = "VALIDATION_FAILED"
    /\ ncalls = MaxCalls - 2
    /\ Len(snapshots) > 0
    /\ ~applyLock

(* C29: an Apply whose mode is not exactly commit creates no snapshot and  *)
(* makes no mutating call.                                                 *)
C29_OnlyCommitMutates ==
  \A c \in Callers :
    (call[c].op = "apply" /\ call[c].mode # "commit") =>
      /\ call[c].snapshotID = 0
      /\ Events(call[c]) \cap MutatingEvents = {}

(* position in the log of the successful validation, 0 if there is none *)
ValidatedAt(r) ==
  IF \E i \in 1..Len(r.log) : r.log[i] = Ev("validate", TRUE)
  THEN CHOOSE i \in 1..Len(r.log) : r.log[i] = Ev("validate", TRUE)
  ELSE 0

C30_State ==
  \A c \in Callers :
    call[c].op = "apply" =>
      /\ (call[c].snapshotID # 0 \/ Events(call[c]) \cap MutatingEvents # {}) =>
           /\ Validate(call[c].profile)
           /\ ValidatedAt(call[c]) > 0
           /\ \A i \in 1..Len(call[c].log) :
                call[c].log[i].e \in MutatingEvents => i > ValidatedAt(call[c])
      /\ ("validate" \in Events(call[c]) /\ ~Validate(call[c].profile)) =>
           /\ call[c].err = "VALIDATION_FAILED"
           /\ call[c].snapshotID = 0
           /\ Events(call[c]) \cap MutatingEvents = {}
           /\ ~call[c].result.returned

C30_Step ==
  \A c \in Callers :
    (/\ call[c].op = "apply"
     /\ "get" \in Events(call[c])
     /\ ~Validate(call[c].profile)
     /\ call'[c] # call[c]) =>
      UNCHANGED <<kernel, sysfile, qdisc, unit, snapshots, history>>

(* C30: every snapshot and mutating call of an Apply comes after Validate   *)
(* accepted the profile in that same call, and an Apply of a cached profile *)
(* that fails Validate returns VALIDATION_FAILED and no step of it changes  *)
(* the system, the snapshots or the history.                                *)
C30_NoInvalidProfileApplied == []C30_State /\ [][C30_Step]_vars

(* the invalid profile loaded from disk was refused, then replaced by a    *)
(* saved one with the same id, which is being applied                      *)
C30_Witness ==
  \E c \in Callers :
    /\ call[c].op = "apply"
    /\ call[c].pid = ProfHtb.id
    /\ Validate(call[c].profile)
    /\ "snapshot" \in Events(call[c])
    /\ FileOf(ProfHtb) \in {disk[n] : n \in DOMAIN disk}

(* ------------------------------------------------------------------ *)
(* ApplyService.verifyChanges on any machine state                     *)
(* ------------------------------------------------------------------ *)
(* a tuple-valued sysctl written with spaces, and a qdisc on every interface *)
ProfTupleFq ==
  [ProfFqAll EXCEPT !.id = "ab", !.sysctl = [k \in {"k1", "k2"} |-> StrVal(S1sp2)],
                    !.hasSystemd = FALSE, !.ensure_qdisc_service = FALSE]

VerifyProfiles == {ProfBuf, ProfFqAll, ProfCakeRoute, ProfTupleFq}

InitVerify ==
  /\ kernel \in [Keys -> {S1, S1tab2, <<"2">>}]
  /\ qdisc \in [Ifaces -> {DefaultQdisc, [type |-> "fq", params |-> EmptyMap],
                           [type |-> "cake", params |-> EmptyMap]}]
  /\ unit \in {[script |-> FALSE, file |-> FALSE, enabled |-> FALSE, active |-> FALSE],
               [script |-> TRUE, file |-> TRUE, enabled |-> TRUE, active |-> TRUE]}
  /\ sysfile = NoFile
  /\ snapshots = <<>>
  /\ history = <<>>
  /\ applyLock = FALSE
  /\ call = [c \in {1} |-> IdleCall]
  /\ ncalls = 0
  /\ faults = 0
  /\ disk = BuiltinDir
  /\ cache = BuiltinProfiles
  /\ \E p \in VerifyProfiles :
       eval = [fn |-> "verify", profile |-> p, done |-> FALSE, failKeys |-> {},
               ifOk |-> TRUE, failIfs |-> {}, v |-> NoVerification]

(* one call of verifyChanges; the reads that fail are chosen freely *)
Verify ==
  /\ eval.fn = "verify"
  /\ ~eval.done
  /\ \E failKeys \in SUBSET DOMAIN eval.profile.sysctl, ifOk \in BOOLEAN,
        failIfs \in SUBSET SeqRange(TargetInterfaces(eval.profile, eval.profile.hasQdisc)),
        activeOk \in BOOLEAN, enabledOk \in BOOLEAN :
       eval' = [eval EXCEPT
                  !.done = TRUE, !.failKeys = failKeys, !.ifOk = ifOk,
                  !.failIfs = failIfs \cap SeqRange(TargetInterfaces(eval.profile, ifOk)),
                  !.v = verifyChanges(eval.profile, failKeys, ifOk, failIfs,
                                      activeOk, enabledOk)]
  /\ UNCHANGED engineVars

NextVerify == Verify

SpecVerify == InitVerify /\ [][NextVerify]_vars

Verified == eval.fn = "verify" /\ eval.done

(* the sysctl keys of the profile that verify *)
KeyVerifies(p, k, failKeys) ==
  /\ k \notin failKeys
  /\ normalizeSysctlValue(SysctlGet(k)) =
       normalizeSysctlValue(formatSysctlValue(p.sysctl[k]))

C31_SysctlHalf ==
  (Verified /\ eval.profile.hasSysctl) =>
    LET p == eval.profile
        bad == {k \in DOMAIN p.sysctl : ~KeyVerifies(p, k, eval.failKeys)}
    IN /\ eval.v.sysctl_ok <=> bad = {}
       /\ {e \in eval.v.errors : e[1] = "sysctl"} = {<<"sysctl", k>> : k \in bad}

C31_QdiscHalf ==
  (Verified /\ eval.profile.hasQdisc) =>
    (eval.v.qdisc_ok <=>
       \A i \in SeqRange(TargetInterfaces(eval.profile, TRUE)) :
         i \notin eval.failIfs /\ qdisc[i].type = eval.profile.qdisc.type)

(* C31: sysctl_ok is true iff every sysctl key of the profile is re-read   *)
(* and equals the rendered profile value after normalising both sides,     *)
(* with one error per key that does not; qdisc_ok is true iff the root     *)
(* qdisc type re-read on every target interface is the profile's type.     *)
C31_VerificationComparesLikePlan == C31_SysctlHalf /\ C31_QdiscHalf

(* ------------------------------------------------------------------ *)
(* ApplyService.RollbackLast among concurrent requests                 *)
(* ------------------------------------------------------------------ *)
(* two callers on a machine of which an earlier request took a snapshot *)
InitLast ==
  /\ kernel = [k \in Keys |-> IF k = "k1" THEN S1 ELSE S3tab4]
  /\ sysfile = LeftoverFile
  /\ qdisc = [i \in Ifaces |->
                IF i = "eth0" THEN DefaultQdisc
                ELSE [type |-> "fq_codel", params |-> [n \in {"limit"} |-> "10"]]]
  /\ unit = [script |-> FALSE, file |-> FALSE, enabled |-> FALSE, active |-> FALSE]
  /\ disk = BuiltinDir
  /\ cache = BuiltinProfiles
  /\ snapshots = <<[id |-> 1, state |-> GetCurrentState, backups |-> sysfile]>>
  /\ history = <<>>
  /\ applyLock = FALSE
  /\ call = [c \in 1..NumCallers |-> IdleCall]
  /\ ncalls = ConcCalls
  /\ faults = ConcFaults
  /\ eval = NoEval

(* POST /sys/rollback with rollback_last = true *)
StartRollbackLast(c) ==
  /\ Free(c)
  /\ ncalls > 0
  /\ SetCall(c, [IdleCall EXCEPT !.pc = "rb_latest", !.op = "rollback"])
  /\ ncalls' = ncalls - 1
  /\ UNCHANGED <<sysVars, storeVars, applyLock, faults>>

(* snapshotService.GetLatest, before Rollback takes the lock *)
RollbackLast(c) ==
  /\ At(c, "rb_latest")
  /\ IF Len(snapshots) = 0
     THEN SetCall(c, Logged([call[c] EXCEPT !.pc = "done", !.err = "SNAPSHOT_NOT_FOUND"],
                            Ev("latest", FALSE)))
     ELSE SetCall(c, Logged([call[c] EXCEPT !.pc = "rb_lock", !.sid = Len(snapshots)],
                            EvN("latest", TRUE, Len(snapshots))))
  /\ UNCHANGED <<sysVars, storeVars, applyLock, ncalls, faults>>

NextLast ==
  \/ Next
  \/ \E c \in 1..NumCallers : StartRollbackLast(c) \/ RollbackLast(c)

SpecLast == InitLast /\ [][NextLast]_vars

(* C32: when a RollbackLast takes the engine lock and its restore begins,  *)
(* the snapshot it restores is the newest one stored at that moment.       *)
C32_RestoresNewest ==
  [][\A c \in Callers :
       (/\ call[c].pc = "rb_lock"
        /\ "latest" \in Events(call[c])
        /\ call'[c].pc = "rb_get") => call[c].sid = Len(snapshots)]_vars

(* ------------------------------------------------------------------ *)
(* POST /sys/snapshot during an apply or a rollback                    *)
(* ------------------------------------------------------------------ *)
WriteEvents ==
  {"w_file", "w_sysctl", "w_qdisc", "w_systemd",
   "rb_sysctl", "rb_file", "rb_reload", "rb_qdisc"}

(* caller d has made a write of its apply or rollback and is at a position *)
(* where the next write is still to come                                   *)
HalfApplied(d) ==
  /\ call[d].op \in {"apply", "rollback"}
  /\ call[d].pc \in WriteEvents
  /\ \E i \in 1..Len(call[d].log) : call[d].log[i].e \in WriteEvents /\ call[d].log[i].ok

(* C33: a snapshot is never stored while another request is between the   *)
(* first and the last write of its apply or rollback.                      *)
C33_NoHalfAppliedSnapshot ==
  [][\A c \in Callers :
       (/\ call[c].pc = "snap_create"
        /\ Len(snapshots') > Len(snapshots)) =>
         \A d \in Callers \ {c} : ~HalfApplied(d)]_vars

(* ------------------------------------------------------------------ *)
(* Requests on machines that already hold a profile's values          *)
(* ------------------------------------------------------------------ *)
FqQdisc(limit) == [type |-> "fq", params |-> [n \in {"limit"} |-> limit]]

InitNoop ==
  /\ \E v \in {S1, <<"2">>} : kernel = [k \in Keys |-> IF k = "k1" THEN v ELSE S1tab2]
  /\ sysfile \in {NoFile, LeftoverFile, [exists |-> TRUE, vals |-> RenderedSysctl(ProfBuf)]}
  /\ \E q \in {DefaultQdisc, FqQdisc("10"), FqQdisc("100")} :
       qdisc = [i \in Ifaces |-> IF i = "eth0" THEN q ELSE FqQdisc("100")]
  /\ unit \in {[script |-> FALSE, file |-> FALSE, enabled |-> FALSE, active |-> FALSE],
               [script |-> TRUE, file |-> TRUE, enabled |-> TRUE, active |-> TRUE]}
  /\ disk = BuiltinDir
  /\ cache = BuiltinProfiles
  /\ snapshots = <<>>
  /\ history = <<>>
  /\ applyLock = FALSE
  /\ call = [c \in {1} |-> IdleCall]
  /\ ncalls = MaxCalls
  /\ faults = 0
  /\ eval = NoEval

SpecNoop == InitNoop /\ [][Next]_vars

PlanEmpty(plan) ==
  DOMAIN plan.sysctl = {} /\ DOMAIN plan.qdisc = {} /\ DOMAIN plan.systemd = {}

(* C34: while and after a commit Apply whose plan is empty, the kernel's   *)
(* sysctl values, the managed sysctl file and every interface's root qdisc *)
(* are what the snapshot taken at the start of the call recorded.          *)
C34_EmptyPlanIsNoOp ==
  \A c \in Callers :
    (/\ IsCommitCall(call[c])
     /\ call[c].snapshotID # 0
     /\ PlanEmpty(call[c].plan)) =>
      LET snap == snapshots[call[c].snapshotID] IN
      /\ GetCurrentState.sysctl = snap.state.sysctl
      /\ sysfile = snap.backups
      /\ \A i \in Ifaces : qdisc[i] = snap.state.qdisc[i]

(* ------------------------------------------------------------------ *)
(* What a rollback reports                                             *)
(* ------------------------------------------------------------------ *)
RestoreSteps == {"rb_sysctl", "rb_file", "rb_reload", "rb_qdisc"}

RestoreFailed(r) == FailedEvents(r) \cap RestoreSteps # {}

ReportsRolledBack(r) ==
  Mentions(r.result.errors, "rolled back")
    \/ Mentions(r.result.errors, "apply failed and rolled back")

(* C35: a call in which a restore step failed does not return from        *)
(* Rollback without an error, records no rollback entry with success=true *)
(* and, when it is a failed Apply, does not report that it rolled back.   *)
C35_RollbackSuccessMeansRestored ==
  \A c \in Callers :
    (Finished(call[c]) /\ RestoreFailed(call[c])) =>
      /\ call[c].op = "rollback" => call[c].err # ""
      /\ "rb_hist" \notin Events(call[c])
      /\ call[c].op = "apply" => ~ReportsRolledBack(call[c])

(* ------------------------------------------------------------------ *)
(* The two qdisc parameter validators                                  *)
(* ------------------------------------------------------------------ *)
MaxParams == 2

AgreeTypes == {"fq", "fq_codel", "cake", "pfifo_fast", "htb", ""}

(* every name of either table, and names of neither *)
ParamNames ==
  UNION {validQdiscParams(t) \cup ValidQdiscParams(t) : t \in AgreeTypes}
    \cup {"bogus", "Limit", ""}

RECURSIVE NameSets(_)
NameSets(n) ==
  IF n = 0 THEN {{}}
  ELSE LET s == NameSets(n - 1) IN s \cup {x \cup {a} : x \in s, a \in ParamNames}

InitAgree ==
  \E t \in AgreeTypes, ns \in NameSets(MaxParams) :
    EvalInit([fn |-> "agree", type |-> t, params |-> [n \in ns |-> "1"],
              done |-> FALSE, store |-> FALSE, adapter |-> FALSE, valid |-> FALSE])

(* the profile of the test: a qdisc section with these parameters *)
QdiscProfile(t, params) ==
  [ProfCakeRoute EXCEPT !.qdisc = [type |-> t, interfaces |-> "all",
                                   hasParams |-> TRUE, params |-> params]]

(* Validate on saving, ValidateQdiscParams in applyChanges *)
BothValidate ==
  /\ eval.fn = "agree"
  /\ ~eval.done
  /\ eval' = [eval EXCEPT
                !.done = TRUE,
                !.store = validateQdiscParams(eval.type, eval.params),
                !.adapter = ValidateQdiscParams(eval.type, eval.params),
                !.valid = Validate(QdiscProfile(eval.type, eval.params))]
  /\ UNCHANGED engineVars

NextAgree == BothValidate

SpecAgree == InitAgree /\ [][NextAgree]_vars

(* C36: for every qdisc type and set of parameter names the validator of  *)
(* the profile store and the adapter's validator both accept or both      *)
(* reject, and a profile that passes Validate passes the adapter's check. *)
C36_ValidatorsAgree ==
  (eval.fn = "agree" /\ eval.done) =>
    /\ eval.store <=> eval.adapter
    /\ eval.valid => eval.adapter

(* a cake profile with two allowed parameters passes both; flows is one *)
C36_Witness ==
  /\ eval.fn = "agree"
  /\ eval.done
  /\ eval.type = "cake"
  /\ DOMAIN eval.params = {"flows", "rtt"}
  /\ eval.valid
  /\ eval.adapter

(* ------------------------------------------------------------------ *)
(* Requests granted to one client within one refill interval           *)
(* ------------------------------------------------------------------ *)
InitWindow ==
  \E rate \in 1..MaxRate, burst \in 1..MaxBurst :
    EvalInit([NewRateLimiter(rate, burst) EXCEPT !.track = TRUE])

SpecWindow == InitWindow /\ [][NextLimiter]_vars

RECURSIVE GrantedIn(_, _, _)
(* the requests granted from tick s on, over n ticks *)
GrantedIn(g, s, n) ==
  IF n = 0 \/ s \notin DOMAIN g THEN 0 ELSE g[s] + GrantedIn(g, s + 1, n - 1)

(* C37: in any window as long as the refill interval, one client is       *)
(* granted at most burst + rate requests.                                 *)
C37_WindowBound ==
  (eval.fn = "limiter" /\ eval.track) =>
    \A s \in DOMAIN eval.grants :
      GrantedIn(eval.grants, s, Interval) <= eval.burst + eval.rate

(* ------------------------------------------------------------------ *)
(* middleware.limitedReader                                            *)
(* ------------------------------------------------------------------ *)
(* newLimitedReader over a body of `length` bytes *)
newLimitedReader(length, limit) ==
  [fn |-> "reader", length |-> length, maxBytes |-> limit,
   left |-> length, remaining |-> limit, delivered |-> 0, err |-> ""]

InitReader ==
  \E length \in 0..MaxBody, limit \in 0..MaxBody :
    EvalInit(newLimitedReader(length, limit))

(* the underlying Read into a buffer of `size` bytes: any number of bytes *)
(* up to the buffer and to what is left, at least one if the buffer has   *)
(* room; end-of-stream comes with the last bytes or on the call after     *)
UnderlyingReads(left, size) ==
  IF size = 0 THEN {[n |-> 0, err |-> ""]}
  ELSE IF left = 0 THEN {[n |-> 0, err |-> "EOF"]}
  ELSE {[n |-> n, err |-> ""] : n \in 1..(IF size < left THEN size ELSE left)}
       \cup (IF size >= left THEN {[n |-> left, err |-> "EOF"]} ELSE {})

(* limitedReader.Read with a buffer of `size` bytes *)
Read ==
  /\ eval.fn = "reader"
  /\ eval.err = ""
  /\ \E size \in 1..MaxBody :
       IF eval.remaining <= 0
       THEN eval' = [eval EXCEPT !.err = "TOO_LARGE"]
       ELSE LET cut == IF size > eval.remaining THEN eval.remaining ELSE size IN
            \E res \in UnderlyingReads(eval.left, cut) :
              eval' = [eval EXCEPT !.left = @ - res.n,
                                   !.remaining = @ - res.n,
                                   !.delivered = @ + res.n,
                                   !.err = res.err]
  /\ UNCHANGED engineVars

NextReader == Read

SpecReader == InitReader /\ [][NextReader]_vars

C38_WithinLimit ==
  (eval.fn = "reader" /\ eval.length <= eval.maxBytes) =>
    /\ eval.err # "TOO_LARGE"
    /\ eval.err = "EOF" => eval.delivered = eval.length

C38_OverLimit ==
  (eval.fn = "reader" /\ eval.length > eval.maxBytes) =>
    /\ eval.delivered <= eval.maxBytes
    /\ eval.err # "EOF"
    /\ eval.err = "TOO_LARGE" => eval.delivered = eval.maxBytes

C38_CounterNotNegative == eval.fn = "reader" => eval.remaining >= 0

(* C38: a body of at most maxBytes bytes is delivered whole, followed by   *)
(* the end of the stream and never by the too-large error; a longer body   *)
(* is cut after maxBytes bytes and then gives the too-large error; the     *)
(* counter of remaining bytes is never negative.                           *)
C38_CutsAtMaxBytes == C38_WithinLimit /\ C38_OverLimit /\ C38_CounterNotNegative

(* ------------------------------------------------------------------ *)
(* probe.RTTTester.TestRTT                                             *)
(* ------------------------------------------------------------------ *)
(* a channel as long as the semaphore *)
ChanCapOfSem(count, concurrency) == concurrency

(* make(chan float64, count) and make(chan string, count) *)
ChanCap(count, concurrency) == count

(* the call after the loop that started one goroutine per probe: each     *)
(* goroutine is about to send to sem                                      *)
InitRTT ==
  \E count \in 1..MaxCount, concurrency \in 1..MaxConcurrency :
    EvalInit([fn |-> "rtt", count |-> count, concurrency |-> concurrency,
              pc |-> [i \in 1..count |-> "acquire"], failed |-> {},
              sem |-> 0, results |-> 0, errors |-> 0, wg |-> count,
              main |-> "wait", Count |-> 0, Successful |-> 0, Failed |-> 0])

Probe(i) == eval.fn = "rtt" /\ i \in DOMAIN eval.pc

(* sem <- struct{}{} *)
Acquire(i) ==
  /\ Probe(i)
  /\ eval.pc[i] = "acquire"
  /\ eval.sem < eval.concurrency
  /\ eval' = [eval EXCEPT !.sem = @ + 1, !.pc[i] = "probe"]
  /\ UNCHANGED engineVars

(* client.ProbeEcho returns, with or without an error *)
ProbeEcho(i) ==
  /\ Probe(i)
  /\ eval.pc[i] = "probe"
  /\ \E ok \in BOOLEAN :
       eval' = [eval EXCEPT !.pc[i] = "send",
                            !.failed = IF ok THEN @ ELSE @ \cup {i}]
  /\ UNCHANGED engineVars

(* errors <- err.Error(), or results <- the duration *)
Send(i) ==
  /\ Probe(i)
  /\ eval.pc[i] = "send"
  /\ IF i \in eval.failed
     THEN /\ eval.errors < ChanCap(eval.count, eval.concurrency)
          /\ eval' = [eval EXCEPT !.errors = @ + 1, !.pc[i] = "release"]
     ELSE /\ eval.results < ChanCap(eval.count, eval.concurrency)
          /\ eval' = [eval EXCEPT !.results = @ + 1, !.pc[i] = "release"]
  /\ UNCHANGED engineVars

(* the deferred <-sem *)
Release(i) ==
  /\ Probe(i)
  /\ eval.pc[i] = "release"
  /\ eval' = [eval EXCEPT !.sem = @ - 1, !.pc[i] = "wgdone"]
  /\ UNCHANGED engineVars

(* the deferred wg.Done() *)
WgDone(i) ==
  /\ Probe(i)
  /\ eval.pc[i] = "wgdone"
  /\ eval' = [eval EXCEPT !.wg = @ - 1, !.pc[i] = "done"]
  /\ UNCHANGED engineVars

(* wg.Wait() returns, the channels are closed and drained, the result is built *)
Collect ==
  /\ eval.fn = "rtt"
  /\ eval.main = "wait"
  /\ eval.wg = 0
  /\ eval' = [eval EXCEPT !.main = "returned", !.Count = eval.count,
                          !.Successful = eval.results, !.Failed = eval.errors,
                          !.results = 0, !.errors = 0]
  /\ UNCHANGED engineVars

NextRTT ==
  \/ \E i \in 1..MaxCount :
       Acquire(i) \/ ProbeEcho(i) \/ Send(i) \/ Release(i) \/ WgDone(i)
  \/ Collect

(* ProbeEcho returns and every goroutine that can run is scheduled *)
SpecRTT ==
  /\ InitRTT
  /\ [][NextRTT]_vars
  /\ \A i \in 1..MaxCount :
       /\ WF_vars(Acquire(i))
       /\ WF_vars(ProbeEcho(i))
       /\ WF_vars(Send(i))
       /\ WF_vars(Release(i))
       /\ WF_vars(WgDone(i))
  /\ WF_vars(Collect)

InFlight == {i \in DOMAIN eval.pc : eval.pc[i] = "probe"}

C39_State ==
  eval.fn = "rtt" =>
    /\ Cardinality(InFlight) <= eval.concurrency
    /\ \A i \in DOMAIN eval.pc :
         eval.pc[i] = "send" =>
           IF i \in eval.failed
           THEN eval.errors < ChanCap(eval.count, eval.concurrency)
           ELSE eval.results < ChanCap(eval.count, eval.concurrency)
    /\ eval.main = "returned" =>
         /\ \A i \in DOMAIN eval.pc : eval.pc[i] = "done"
         /\ eval.Successful + eval.Failed = eval.Count
         /\ eval.Count = eval.count
         /\ eval.Failed = Cardinality(eval.failed)

(* C39: never more than `concurrency` probes are in flight, a probe that   *)
(* has its outcome always finds room in the channel it sends to, every     *)
(* probe finishes and the call returns, with Successful + Failed = Count.  *)
C39_BoundedAndComplete == []C39_State /\ <>(eval.fn = "rtt" /\ eval.main = "returned")

(* three probes with two at a time: two are in flight and the third waits *)
(* for the semaphore                                                      *)
C39_Witness ==
  /\ eval.fn = "rtt"
  /\ eval.count = 3
  /\ eval.concurrency = 2
  /\ Cardinality(InFlight) = 2
  /\ \E i \in DOMAIN eval.pc : eval.pc[i] = "acquire"

====
